---- MODULE Spec2Model ----
(***************************************************************************)
(* BrownBook: the task / economy / shop engine of app.js, as a state       *)
(* machine over one in-memory snapshot (appData), the stored document      *)
(* (cloud) and the change feed that delivers stored snapshots back.        *)
(***************************************************************************)
EXTENDS Integers, Sequences, FiniteSets, TLC

VARIABLES
    appData,                \* the in-memory snapshot
    cloud,                  \* the stored document: <<>> (none) or <<snapshot>>
    feed,                   \* snapshots written to the store, not yet delivered to onSnapshot
    now,                    \* the local clock: [day, hour]
    isFirstLoad,            \* gate of the load-time repair routines
    localStorage,           \* set of keys set in localStorage
    currentRewardToClaim,   \* <<>> or <<[reward, attached]>>
    currentShopItemToClaim, \* <<>> or <<[item, price]>>
    claimModalOpen,         \* the claim dialog is open
    rewardsGrid,            \* ids whose Claim button the last renderRewards bound
    spent,                  \* ghost: sum of the prices debited so far
    probe                   \* inputs and result of the pure-function specifications

vars == <<appData, cloud, feed, now, isFirstLoad, localStorage, currentRewardToClaim,
          currentShopItemToClaim, claimModalOpen, rewardsGrid, spent, probe>>

----------------------------------------------------------------------------
\* Bounds of the model

MaxDay == 0
MaxFeed == 1
MaxClaims == 2

----------------------------------------------------------------------------
\* JavaScript numbers that can become NaN: [nan, v]

Num(n) == [nan |-> FALSE, v |-> n]
NaN == [nan |-> TRUE, v |-> 0]
JsAdd(a, b) == IF a.nan \/ b.nan THEN NaN ELSE Num(a.v + b.v)
JsSub(a, b) == IF a.nan \/ b.nan THEN NaN ELSE Num(a.v - b.v)
JsLt(a, b) == IF a.nan \/ b.nan THEN FALSE ELSE a.v < b.v
JsGe(a, b) == IF a.nan \/ b.nan THEN FALSE ELSE a.v >= b.v

\* Sequence helpers (Array.prototype)
RECURSIVE FilterSeq(_, _)
FilterSeq(s, keep) ==
    IF s = <<>> THEN <<>>
    ELSE IF Head(s) \in keep THEN <<Head(s)>> \o FilterSeq(Tail(s), keep)
    ELSE FilterSeq(Tail(s), keep)

Range(s) == {s[i] : i \in DOMAIN s}
Splice(s, i) == SubSeq(s, 1, i - 1) \o SubSeq(s, i + 1, Len(s))
Unshift(s, e) == <<e>> \o s
\* findIndex: first index whose element is in the set, 0 when none
FindIndex(s, match) ==
    IF \E i \in DOMAIN s : s[i] \in match
    THEN CHOOSE i \in DOMAIN s : s[i] \in match /\ \A j \in 1..(i - 1) : s[j] \notin match
    ELSE 0
\* A JavaScript object used as a map: a set of [k, v] with distinct keys
Has(m, key) == \E e \in m : e.k = key
Get(m, key) == (CHOOSE e \in m : e.k = key).v
Delete(m, key) == {e \in m : e.k # key}
Put(m, key, val) == Delete(m, key) \cup {[k |-> key, v |-> val]}
Keys(m) == {e.k : e \in m}

----------------------------------------------------------------------------
\* Program constants

DiffNames == {"quick", "easy", "medium", "hard", "epic"}
DIFFICULTIES ==
    [quick |-> 5, easy |-> 15, medium |-> 25, hard |-> 50, epic |-> 75]

PRESET_RECURRING_TASKS == <<"brush_morning", "brush_night", "floss">>

\* The calendar: day 0 is Saturday 2026-02-07; getDay() numbering (0 = Sunday)
FirstDow == 6
Jan19 == -19
Jan20 == -18
Jan31 == -7
holidays == {Jan19}
ResetHour == 6

Instant(d, h) == [day |-> d, hour |-> h]
jan20Timestamp == Instant(Jan20, 22)
backfillDate == Instant(Jan31, 23)

\* getDateString of a timestamp after the 06:00 shift, as written at each call site
AppDate(ts) == IF ts.hour < ResetHour THEN ts.day - 1 ELSE ts.day
getTodayDateString(t) == AppDate(t)
getResetDateString(t) == AppDate(t)
getDay(t) == (FirstDow + t.day) % 7

\* isWeekendSale with the hour of Monday 06:00 counted in
isWeekendSaleThroughSix(t) ==
    \/ getDay(t) = 6 /\ t.hour >= 6
    \/ getDay(t) = 0
    \/ getDay(t) = 1 /\ t.hour <= 6
    \/ t.day \in holidays /\ t.hour >= 6
    \/ (t.day - 1) \in holidays /\ t.hour < 6

isWeekendSale(t) ==
    \/ getDay(t) = 6 /\ t.hour >= 6
    \/ getDay(t) = 0
    \/ getDay(t) = 1 /\ t.hour < 6
    \/ t.day \in holidays /\ t.hour >= 6
    \/ (t.day - 1) \in holidays /\ t.hour < 6

----------------------------------------------------------------------------
\* The snapshot

NoStats ==
    [totalCoinsEarned |-> Num(0), currentBalance |-> Num(0),
     tasksCompleted |-> [d \in DiffNames |-> 0],
     rewardsClaimed |-> 0,
     economy_recalc_2026_01 |-> FALSE,
     weekend_sale_refund_2026_01_18 |-> FALSE,
     jan20_missing_tasks_fix_v2 |-> FALSE]

\* let appData = {...}: the default structure
DefaultAppData ==
    [tasks |-> <<>>, recurringTasks |-> <<>>, recurringCompletions |-> {},
     completedHistory |-> <<>>, rewards |-> <<>>, customShopItems |-> <<>>,
     stats |-> NoStats, shopPurchases |-> {}, presetsInitialized |-> FALSE]

\* A one-off task record or a history entry; absent fields are <<>> (timestamps)
\* or NaN (coins: arithmetic on undefined)
Subtask(sid, c) == [id |-> sid, completed |-> FALSE, coins |-> c]

NewTask(tid, diff, subs, dist) ==
    [id |-> tid, recurringId |-> "", difficulty |-> diff, subtasks |-> subs,
     distributeCoins |-> dist, isRecurring |-> FALSE, completed |-> FALSE,
     completedAt |-> <<>>, expiresAt |-> <<>>, coins |-> NaN]

RecurringEntry(eid, rid, diff, ts, c) ==
    [id |-> eid, recurringId |-> rid, difficulty |-> diff, subtasks |-> <<>>,
     distributeCoins |-> FALSE, isRecurring |-> TRUE, completed |-> TRUE,
     completedAt |-> <<ts>>, expiresAt |-> <<>>, coins |-> c]

NewRecurringTask(rid, diff, subs, dist) ==
    [id |-> rid, difficulty |-> diff, subtasks |-> subs, distributeCoins |-> dist]

Ids(s) == {s[i].id : i \in DOMAIN s}
IndexOfId(s, id) == FindIndex(s, {e \in Range(s) : e.id = id})

\* the app-date of a history entry, as each call site computes it
EntryDate(h) == AppDate(h.completedAt[1])

incrementTaskCount(stats, difficulty) ==
    [stats EXCEPT !.tasksCompleted[difficulty] = @ + 1]

decrementTaskCount(stats, difficulty) ==
    IF stats.tasksCompleted[difficulty] > 0
    THEN [stats EXCEPT !.tasksCompleted[difficulty] = @ - 1]
    ELSE stats

Credit(stats, coins) ==
    [stats EXCEPT !.totalCoinsEarned = JsAdd(@, coins), !.currentBalance = JsAdd(@, coins)]

Debit(stats, coins) ==
    [stats EXCEPT !.totalCoinsEarned = JsSub(@, coins), !.currentBalance = JsSub(@, coins)]

----------------------------------------------------------------------------
\* One-off tasks

\* toggleTask without the splice that takes the task out of the active list
toggleTaskKeepsActive(a, id, t) ==
    LET taskIndex == IndexOfId(a.tasks, id) IN
    IF taskIndex = 0 THEN a
    ELSE LET task == [a.tasks[taskIndex] EXCEPT !.completed = TRUE, !.completedAt = <<t>>]
             coins == Num(DIFFICULTIES[task.difficulty])
         IN [a EXCEPT
               !.stats = incrementTaskCount(Credit(a.stats, coins), task.difficulty),
               !.completedHistory = Unshift(a.completedHistory, task)]

toggleTask(a, id, t) ==
    LET taskIndex == IndexOfId(a.tasks, id) IN
    IF taskIndex = 0 THEN a
    ELSE LET task == [a.tasks[taskIndex] EXCEPT !.completed = TRUE, !.completedAt = <<t>>]
             coins == Num(DIFFICULTIES[task.difficulty])
         IN [a EXCEPT
               !.stats = incrementTaskCount(Credit(a.stats, coins), task.difficulty),
               !.completedHistory = Unshift(a.completedHistory, task),
               !.tasks = Splice(a.tasks, taskIndex)]

\* uncompleteTask without the decrementTaskCount call
uncompleteTaskKeepsCount(a, id) ==
    LET taskIndex == IndexOfId(a.completedHistory, id) IN
    IF taskIndex = 0 THEN a
    ELSE LET found == a.completedHistory[taskIndex]
             coins == Num(DIFFICULTIES[found.difficulty])
             task == [found EXCEPT !.completed = FALSE, !.completedAt = <<>>]
         IN [a EXCEPT
               !.stats = Debit(a.stats, coins),
               !.tasks = Unshift(a.tasks, task),
               !.completedHistory = Splice(a.completedHistory, taskIndex)]

uncompleteTask(a, id) ==
    LET taskIndex == IndexOfId(a.completedHistory, id) IN
    IF taskIndex = 0 THEN a
    ELSE LET found == a.completedHistory[taskIndex]
             coins == Num(DIFFICULTIES[found.difficulty])
             task == [found EXCEPT !.completed = FALSE, !.completedAt = <<>>]
         IN [a EXCEPT
               !.stats = decrementTaskCount(Debit(a.stats, coins), found.difficulty),
               !.tasks = Unshift(a.tasks, task),
               !.completedHistory = Splice(a.completedHistory, taskIndex)]

----------------------------------------------------------------------------
\* Recurring tasks

\* isRecurringCompletedToday that takes an entry of any date for today's
isRecurringCompletedTodayAnyDate(a, taskId, t) == Has(a.recurringCompletions, taskId)

isRecurringCompletedToday(a, taskId, t) ==
    /\ Has(a.recurringCompletions, taskId)
    /\ Get(a.recurringCompletions, taskId) = getTodayDateString(t)

\* the entries of history that are today's record of recurring task id
TodaysEntries(a, id, t) ==
    {h \in Range(a.completedHistory) :
        h.recurringId = id /\ h.completedAt # <<>> /\ EntryDate(h) = getTodayDateString(t)}

\* toggleRecurringTask without the lookup of the task: the completion map is
\* toggled for any id, at the coins of its default difficulty
toggleRecurringTaskNoLookup(a, id, t) ==
    LET idx == IndexOfId(a.recurringTasks, id)
        difficulty == IF idx = 0 THEN "medium" ELSE a.recurringTasks[idx].difficulty
        today == getTodayDateString(t)
        coins == Num(DIFFICULTIES[difficulty])
    IN IF isRecurringCompletedToday(a, id, t)
       THEN LET historyIndex == FindIndex(a.completedHistory, TodaysEntries(a, id, t))
            IN [a EXCEPT
                  !.stats = decrementTaskCount(Debit(a.stats, coins), difficulty),
                  !.recurringCompletions = Delete(@, id),
                  !.completedHistory =
                      IF historyIndex # 0 THEN Splice(@, historyIndex) ELSE @]
       ELSE [a EXCEPT
               !.stats = incrementTaskCount(Credit(a.stats, coins), difficulty),
               !.recurringCompletions = Put(@, id, today),
               !.completedHistory =
                   Unshift(@, RecurringEntry("recurring_" \o id, id, difficulty, t, NaN))]

toggleRecurringTask(a, id, t) ==
    LET idx == IndexOfId(a.recurringTasks, id) IN
    IF idx = 0 THEN a
    ELSE LET task == a.recurringTasks[idx]
             today == getTodayDateString(t)
             coins == Num(DIFFICULTIES[task.difficulty])
         IN IF isRecurringCompletedToday(a, id, t)
            THEN LET historyIndex == FindIndex(a.completedHistory, TodaysEntries(a, id, t))
                 IN [a EXCEPT
                       !.stats = decrementTaskCount(Debit(a.stats, coins), task.difficulty),
                       !.recurringCompletions = Delete(@, id),
                       !.completedHistory =
                           IF historyIndex # 0 THEN Splice(@, historyIndex) ELSE @]
            ELSE [a EXCEPT
                    !.stats = incrementTaskCount(Credit(a.stats, coins), task.difficulty),
                    !.recurringCompletions = Put(@, id, today),
                    !.completedHistory =
                        Unshift(@, RecurringEntry("recurring_" \o id, id, task.difficulty, t, NaN))]

----------------------------------------------------------------------------
\* Subtasks

SubIndex(task, subtaskId) == IndexOfId(task.subtasks, subtaskId)

\* subtask.completed = !subtask.completed, then the coin logic of a distributed parent
FlipSubtask(task, si) == [task EXCEPT !.subtasks[si].completed = ~@]

SubtaskCoins(stats, task, si) ==
    LET flipped == FlipSubtask(task, si).subtasks[si] IN
    IF task.distributeCoins /\ flipped.coins > 0
    THEN IF flipped.completed THEN Credit(stats, Num(flipped.coins))
         ELSE Debit(stats, Num(flipped.coins))
    ELSE stats

allCompleted(task) == \A i \in DOMAIN task.subtasks : task.subtasks[i].completed

\* the un-complete branch of a recurring parent that is done today
UncheckRecurringParent(a, parentId, t) ==
    LET historyIndex == FindIndex(a.completedHistory, TodaysEntries(a, parentId, t)) IN
    IF historyIndex = 0 THEN a
    ELSE LET entry == a.completedHistory[historyIndex] IN
         [a EXCEPT
            !.stats = decrementTaskCount(Debit(a.stats, entry.coins), entry.difficulty),
            !.completedHistory = Splice(@, historyIndex)]

SubtaskFound(a, parentId, subtaskId, type) ==
    LET list == IF type = "recurring" THEN a.recurringTasks ELSE a.tasks
        pi == IndexOfId(list, parentId)
    IN pi # 0 /\ SubIndex(list[pi], subtaskId) # 0

toggleSubtask(a, parentId, subtaskId, type, t) ==
    IF ~SubtaskFound(a, parentId, subtaskId, type) THEN a
    ELSE
    LET list == IF type = "recurring" THEN a.recurringTasks ELSE a.tasks
        pi == IndexOfId(list, parentId)
        si == SubIndex(list[pi], subtaskId)
        task == FlipSubtask(list[pi], si)
        a1 == IF type = "recurring"
              THEN [a EXCEPT !.recurringTasks[pi] = task,
                             !.stats = SubtaskCoins(a.stats, list[pi], si)]
              ELSE [a EXCEPT !.tasks[pi] = task,
                             !.stats = SubtaskCoins(a.stats, list[pi], si)]
    IN IF allCompleted(task)
       THEN IF type = "task" /\ ~task.completed THEN toggleTask(a1, parentId, t)
            ELSE IF type = "recurring" /\ ~isRecurringCompletedToday(a1, parentId, t)
                 THEN toggleRecurringTask(a1, parentId, t)
                 ELSE a1
       ELSE IF type = "task" /\ task.completed THEN uncompleteTask(a1, parentId)
            ELSE IF type = "recurring" /\ isRecurringCompletedToday(a1, parentId, t)
                 THEN UncheckRecurringParent(a1, parentId, t)
                 ELSE a1

----------------------------------------------------------------------------
\* Load-time routines

\* addPresets that leaves presetsInitialized as it was
addPresetsUnflagged(a) ==
    [a EXCEPT
       !.recurringTasks = @ \o [i \in DOMAIN PRESET_RECURRING_TASKS |->
                                   NewRecurringTask(PRESET_RECURRING_TASKS[i], "quick", <<>>, FALSE)]]

addPresets(a) ==
    [a EXCEPT
       !.recurringTasks = @ \o [i \in DOMAIN PRESET_RECURRING_TASKS |->
                                   NewRecurringTask(PRESET_RECURRING_TASKS[i], "quick", <<>>, FALSE)],
       !.presetsInitialized = TRUE]

\* new Date(t.expiresAt) <= now
NotAfter(x, y) == x.day < y.day \/ (x.day = y.day /\ x.hour <= y.hour)

Expired(a, t) ==
    {x \in Range(a.tasks) : x.expiresAt # <<>> /\ NotAfter(x.expiresAt[1], t)}

\* cleanupExpiredTasks that keeps a task until its expiresAt lies behind
cleanupExpiredTasksLate(a, t) ==
    [a EXCEPT !.tasks =
        FilterSeq(@, {x \in Range(@) : x.expiresAt = <<>> \/ NotAfter(t, x.expiresAt[1])})]

cleanupExpiredTasks(a, t) ==
    [a EXCEPT !.tasks = FilterSeq(@, Range(@) \ Expired(a, t))]

RECURSIVE SumCoins(_)
SumCoins(h) ==
    IF h = <<>> THEN 0
    ELSE (IF Head(h).difficulty \in DiffNames THEN DIFFICULTIES[Head(h).difficulty] ELSE 0)
         + SumCoins(Tail(h))

MigrateCompletedTasks(a) ==
    LET completedInTasks == {x \in Range(a.tasks) : x.completed} IN
    IF completedInTasks = {} THEN a
    ELSE [a EXCEPT !.completedHistory = FilterSeq(a.tasks, completedInTasks) \o @,
                   !.tasks = FilterSeq(@, Range(@) \ completedInTasks)]

EconomyRecalc(a) ==
    IF a.stats.economy_recalc_2026_01 THEN a
    ELSE LET impliedSpending == JsSub(a.stats.totalCoinsEarned, a.stats.currentBalance)
             trueTotalEarned == Num(SumCoins(a.completedHistory))
         IN [a EXCEPT !.stats.totalCoinsEarned = trueTotalEarned,
                      !.stats.currentBalance = JsSub(trueTotalEarned, impliedSpending),
                      !.stats.economy_recalc_2026_01 = TRUE]

refundAmount == 36

WeekendSaleRefund(a) ==
    IF a.stats.weekend_sale_refund_2026_01_18 THEN a
    ELSE [a EXCEPT !.stats.currentBalance = JsAdd(@, Num(refundAmount)),
                   !.stats.weekend_sale_refund_2026_01_18 = TRUE]

\* push the fix entry of one preset unless an entry with the fix id exists
Jan20Entry(h, recurring, rid, fixId) ==
    IF rid \in Ids(recurring) /\ fixId \notin Ids(h)
    THEN Append(h, RecurringEntry(fixId, rid, recurring[IndexOfId(recurring, rid)].difficulty,
                                  jan20Timestamp, NaN))
    ELSE h

Jan20Fix(a) ==
    IF a.stats.jan20_missing_tasks_fix_v2 THEN a
    ELSE [a EXCEPT
            !.completedHistory =
                Jan20Entry(Jan20Entry(@, a.recurringTasks, "brush_night", "fix_brush_night_jan20"),
                           a.recurringTasks, "floss", "fix_floss_jan20"),
            !.stats.currentBalance = JsAdd(@, Num(10)),
            !.stats.totalCoinsEarned = JsAdd(@, Num(10)),
            !.stats.jan20_missing_tasks_fix_v2 = TRUE]

\* today's recurring entries whose task id has no entry in the completion map
Zombies(a, t) ==
    {h \in Range(a.completedHistory) :
        /\ h.isRecurring /\ h.completedAt # <<>>
        /\ EntryDate(h) = getTodayDateString(t)
        /\ ~Has(a.recurringCompletions, h.recurringId)}

RemoveZombies(a, t) ==
    [a EXCEPT !.completedHistory = FilterSeq(@, Range(@) \ Zombies(a, t))]

\* map entries dated today without a history entry of today
Orphans(a, t) ==
    {e \in a.recurringCompletions :
        e.v = getTodayDateString(t) /\ TodaysEntries(a, e.k, t) = {}}

RemoveOrphansAndStale(a, t) ==
    [a EXCEPT !.recurringCompletions =
        {e \in @ \ Orphans(a, t) : e.v = getTodayDateString(t)}]

runMigrationsAndCleanup(a, t) ==
    RemoveOrphansAndStale(
        RemoveZombies(Jan20Fix(WeekendSaleRefund(EconomyRecalc(MigrateCompletedTasks(a)))), t), t)

FIX_ID == "backfill_jan31_v1"

\* one target of the backfill: the task exists and has no entry on the backfill date
\* BackfillOne without the alreadyDone check
BackfillOneUnchecked(a, rid) ==
    LET idx == IndexOfId(a.recurringTasks, rid)
    IN IF idx = 0 THEN a
       ELSE LET task == a.recurringTasks[idx]
                diff == Num(DIFFICULTIES[task.difficulty])
            IN [a EXCEPT
                  !.completedHistory =
                      Append(@, RecurringEntry("backfill_" \o rid, rid, task.difficulty,
                                               backfillDate, diff)),
                  !.stats = incrementTaskCount(Credit(a.stats, diff), task.difficulty)]

BackfillOne(a, rid) ==
    LET idx == IndexOfId(a.recurringTasks, rid)
        alreadyDone == \E h \in Range(a.completedHistory) :
            h.completedAt # <<>> /\ EntryDate(h) = AppDate(backfillDate) /\ h.recurringId = rid
    IN IF idx = 0 \/ alreadyDone THEN a
       ELSE LET task == a.recurringTasks[idx]
                diff == Num(DIFFICULTIES[task.difficulty])
            IN [a EXCEPT
                  !.completedHistory =
                      Append(@, RecurringEntry("backfill_" \o rid, rid, task.difficulty,
                                               backfillDate, diff)),
                  !.stats = incrementTaskCount(Credit(a.stats, diff), task.difficulty)]

runBackfillJan31(a, ls) ==
    IF FIX_ID \in ls THEN a
    ELSE BackfillOne(BackfillOne(a, "brush_night"), "floss")

\* appData = { ...appData, ...data }
Merge(a, data) == [key \in DOMAIN a \cup DOMAIN data |->
                      IF key \in DOMAIN data THEN data[key] ELSE a[key]]

----------------------------------------------------------------------------
\* Rewards and shop

ShopItem(sid, base, scale, type) ==
    [id |-> sid, baseCost |-> base, scaling |-> scale, scalingType |-> type]

Reward(rid, c) == [id |-> rid, cost |-> c, timesClaimed |-> 0, lastClaimedAt |-> <<>>]

RECURSIVE Pow(_, _)
Pow(x, n) == IF n = 0 THEN 1 ELSE x * Pow(x, n - 1)

\* Math.ceil(x * 0.5)
CeilHalf(x) == (x + 1) \div 2
\* Math.ceil of the square root of n
CeilSqrt(n) == CHOOSE r \in 0..n : r * r >= n /\ \A q \in 0..(r - 1) : q * q < n

purchaseCount(purchases, itemId, resetDate) ==
    IF Has(purchases, itemId) /\ Get(purchases, itemId).lastResetDate = resetDate
    THEN Get(purchases, itemId).count
    ELSE 0

\* ShopPrice with the sale price of an additive item rising at every purchase
ShopPriceSaleEachPurchase(item, count, saleActive) ==
    IF item.scalingType = "add" /\ item.scaling > 0
    THEN IF saleActive THEN CeilHalf(item.baseCost) + count * item.scaling
         ELSE item.baseCost + count * item.scaling
    ELSE IF saleActive THEN CeilHalf(item.baseCost) ELSE item.baseCost

\* ShopPrice with a sale price that ignores the purchases of the day
ShopPriceSaleFlat(item, count, saleActive) ==
    IF saleActive THEN CeilHalf(item.baseCost)
    ELSE IF item.scalingType = "multiply" THEN item.baseCost * Pow(item.scaling, count)
    ELSE item.baseCost + count * item.scaling

\* the price of an item after count purchases on the reset-date; the square root of
\* the sale multiplier is taken exactly
ShopPrice(item, count, saleActive) ==
    LET hasIncrement == \/ item.scalingType = "multiply" /\ item.scaling > 1
                        \/ item.scalingType = "add" /\ item.scaling > 0
    IN IF ~hasIncrement
       THEN IF saleActive THEN CeilHalf(item.baseCost) ELSE item.baseCost
       ELSE IF item.scalingType = "multiply"
            THEN IF saleActive
                 THEN CeilSqrt(CeilHalf(item.baseCost) * CeilHalf(item.baseCost)
                               * Pow(item.scaling, count))
                 ELSE item.baseCost * Pow(item.scaling, count)
            ELSE IF saleActive
                 THEN CeilHalf(item.baseCost) + (count \div 2) * item.scaling
                 ELSE item.baseCost + count * item.scaling

getShopItemPrice(a, item, t, isDailyShop) ==
    ShopPrice(item, purchaseCount(a.shopPurchases, item.id, getResetDateString(t)),
              isWeekendSale(t) /\ isDailyShop)

\* TrackPurchase that counts on across the 06:00 boundary
TrackPurchaseNoReset(purchases, itemId, resetDate) ==
    IF ~Has(purchases, itemId)
    THEN Put(purchases, itemId, [count |-> 1, lastResetDate |-> resetDate])
    ELSE Put(purchases, itemId, [count |-> Get(purchases, itemId).count + 1,
                                 lastResetDate |-> resetDate])

\* the purchase record after one more purchase on resetDate
TrackPurchase(purchases, itemId, resetDate) ==
    IF ~Has(purchases, itemId) \/ Get(purchases, itemId).lastResetDate # resetDate
    THEN Put(purchases, itemId, [count |-> 1, lastResetDate |-> resetDate])
    ELSE Put(purchases, itemId, [Get(purchases, itemId) EXCEPT !.count = @ + 1])

\* the shop branch rejects a price above the balance
ShopRejected(a, claim) == JsLt(a.stats.currentBalance, Num(claim.price))

confirmShopClaim(a, claim, t) ==
    IF ShopRejected(a, claim) THEN a
    ELSE [a EXCEPT
            !.stats.currentBalance = JsSub(@, Num(claim.price)),
            !.stats.rewardsClaimed = @ + 1,
            !.shopPurchases = TrackPurchase(@, claim.item.id, getResetDateString(t))]

\* the flat-reward branch; the counters go to the captured reward object, which is
\* an element of appData.rewards only while attached
confirmRewardClaim(a, claim, t) ==
    LET ri == IndexOfId(a.rewards, claim.reward.id) IN
    [a EXCEPT
       !.stats.currentBalance = JsSub(@, Num(claim.reward.cost)),
       !.stats.rewardsClaimed = @ + 1,
       !.rewards = IF claim.attached /\ ri # 0
                   THEN [@ EXCEPT ![ri].timesClaimed = @ + 1, ![ri].lastClaimedAt = <<t>>]
                   ELSE @]

\* the Claim buttons renderRewards binds: the cards that are affordable
CanClaimRewards(a) ==
    {r.id : r \in {x \in Range(a.rewards) : JsGe(a.stats.currentBalance, Num(x.cost))}}

CanClaimShop(a, t) ==
    {i.id : i \in {x \in Range(a.customShopItems) :
                      JsGe(a.stats.currentBalance, Num(getShopItemPrice(a, x, t, TRUE)))}}

renderRewards(a, t) == CanClaimRewards(a) \cup CanClaimShop(a, t)

----------------------------------------------------------------------------
\* What the user enters in the dialogs, and the document of an earlier build

TaskTemplates ==
    {NewTask("t1", "easy", <<>>, FALSE),
     NewTask("t2", "quick", <<Subtask("a", 2), Subtask("b", 3)>>, TRUE)}

RecurringTemplates ==
    {NewRecurringTask("r1", "quick", <<Subtask("a", 2), Subtask("b", 3)>>, TRUE)}

\* The rows of the recurring list the user works with
ClickRows == {"r1"}

ShopTemplates == {ShopItem("s1", 10, 5, "add")}
RewardTemplates == {Reward("w1", 60)}

\* what toggleRecurringTask of the earlier build stored for brush_night on January 20
LegacyDoc ==
    [addPresets(DefaultAppData) EXCEPT
       !.stats = incrementTaskCount(Credit(NoStats, Num(DIFFICULTIES["quick"])), "quick"),
       !.recurringCompletions = {[k |-> "brush_night", v |-> Jan20]},
       !.completedHistory = <<RecurringEntry("recurring_" \o "brush_night", "brush_night",
                                             "quick", Instant(Jan20, 12), NaN)>>]

----------------------------------------------------------------------------
\* Initial state: the module has just been evaluated and init() has subscribed

NoProbe == [fn |-> "none"]

Init ==
    /\ appData = DefaultAppData
    /\ cloud = <<>>
    /\ feed = << <<>> >>
    /\ now = Instant(0, 2)
    /\ isFirstLoad = TRUE
    /\ localStorage = {}
    /\ currentRewardToClaim = <<>>
    /\ currentShopItemToClaim = <<>>
    /\ claimModalOpen = FALSE
    /\ rewardsGrid = {}
    /\ spent = 0
    /\ probe = NoProbe

\* setDoc(DATA_DOC_REF, appData): the store takes the snapshot and echoes it
saveData(a) ==
    /\ cloud' = <<a>>
    /\ feed' = Append(feed, <<a>>)

CanSave == Len(feed) < MaxFeed

\* the claim dialog covers the page
PageFree == ~claimModalOpen

----------------------------------------------------------------------------
\* The clock

NextInstant(t) == IF t.hour < ResetHour THEN Instant(t.day, 12) ELSE Instant(t.day + 1, 2)

ClockAdvance ==
    /\ NextInstant(now).day <= MaxDay
    /\ now' = NextInstant(now)
    /\ UNCHANGED <<appData, cloud, feed, isFirstLoad, localStorage, currentRewardToClaim,
                   currentShopItemToClaim, claimModalOpen, rewardsGrid, spent, probe>>

----------------------------------------------------------------------------
\* The change feed handler of init()

Ingested(data) ==
    LET a1 == cleanupExpiredTasks(Merge(appData, data), now) IN
    IF isFirstLoad THEN runBackfillJan31(runMigrationsAndCleanup(a1, now), localStorage)
    ELSE a1

OnSnapshot ==
    /\ feed # <<>>
    /\ LET doc == Head(feed) IN
       IF doc # <<>>
       THEN LET merged == Merge(appData, doc[1])
                a == Ingested(doc[1])
            IN /\ appData' = a
               /\ IF a # merged
                  THEN cloud' = <<a>> /\ feed' = Append(Tail(feed), <<a>>)
                  ELSE cloud' = cloud /\ feed' = Tail(feed)
               /\ localStorage' = IF isFirstLoad THEN localStorage \cup {FIX_ID}
                                  ELSE localStorage
               /\ isFirstLoad' = FALSE
               /\ currentRewardToClaim' =
                      IF currentRewardToClaim = <<>> THEN <<>>
                      ELSE <<[currentRewardToClaim[1] EXCEPT !.attached = FALSE]>>
               /\ rewardsGrid' = renderRewards(a, now)
       ELSE LET a == IF appData.presetsInitialized THEN appData ELSE addPresets(appData)
            IN /\ appData' = a
               /\ IF a # appData
                  THEN cloud' = <<a>> /\ feed' = Append(Tail(feed), <<a>>)
                  ELSE cloud' = cloud /\ feed' = Tail(feed)
               /\ rewardsGrid' = renderRewards(a, now)
               /\ UNCHANGED <<localStorage, isFirstLoad, currentRewardToClaim>>
    /\ UNCHANGED <<now, currentShopItemToClaim, claimModalOpen, spent, probe>>

\* Recover Legacy Data: the stored document is overwritten and the page reloads
RecoverLegacy ==
    /\ PageFree
    /\ cloud' = <<LegacyDoc>>
    /\ feed' = <<cloud'>>
    /\ appData' = DefaultAppData
    /\ isFirstLoad' = TRUE
    /\ currentRewardToClaim' = <<>>
    /\ currentShopItemToClaim' = <<>>
    /\ claimModalOpen' = FALSE
    /\ rewardsGrid' = {}
    /\ spent' = 0
    /\ UNCHANGED <<now, localStorage, probe>>

----------------------------------------------------------------------------
\* Task handlers

UiFrame == UNCHANGED <<now, isFirstLoad, localStorage, currentRewardToClaim,
                       currentShopItemToClaim, claimModalOpen, probe>>

SaveNewTask ==
    /\ PageFree /\ CanSave
    /\ \/ \E task \in TaskTemplates :
            /\ task.id \notin Ids(appData.tasks) \cup Ids(appData.completedHistory)
            /\ appData' = [appData EXCEPT !.tasks = Unshift(@, task)]
       \/ \E task \in RecurringTemplates :
            /\ task.id \notin Ids(appData.recurringTasks)
            /\ appData' = [appData EXCEPT !.recurringTasks = Append(@, task)]
    /\ saveData(appData')
    /\ UNCHANGED <<rewardsGrid, spent>>
    /\ UiFrame

\* the checkbox of an active row
ToggleTask ==
    /\ PageFree /\ CanSave
    /\ \E id \in Ids(appData.tasks) :
        /\ appData' = toggleTask(appData, id, now)
    /\ saveData(appData')
    /\ UNCHANGED <<rewardsGrid, spent>>
    /\ UiFrame

\* the rows renderTasks shows as completed today
todayCompletedTasks(a, t) ==
    {h \in Range(a.completedHistory) :
        h.completedAt # <<>> /\ ~h.isRecurring /\ EntryDate(h) = getTodayDateString(t)}

UncompleteTask ==
    /\ PageFree /\ CanSave
    /\ \E h \in todayCompletedTasks(appData, now) :
        /\ appData' = uncompleteTask(appData, h.id)
    /\ saveData(appData')
    /\ UNCHANGED <<rewardsGrid, spent>>
    /\ UiFrame

ToggleRecurringTask ==
    /\ PageFree /\ CanSave
    /\ \E id \in Ids(appData.recurringTasks) \cap ClickRows :
        /\ appData' = toggleRecurringTask(appData, id, now)
    /\ saveData(appData')
    /\ UNCHANGED <<rewardsGrid, spent>>
    /\ UiFrame

\* a subtask checkbox: of an active row, of a row completed today (type task), or of
\* a recurring row
ToggleSubtask ==
    /\ PageFree /\ CanSave
    /\ \/ \E p \in Range(appData.tasks) \cup todayCompletedTasks(appData, now) :
          \E si \in DOMAIN p.subtasks :
            /\ appData' = toggleSubtask(appData, p.id, p.subtasks[si].id, "task", now)
            /\ IF SubtaskFound(appData, p.id, p.subtasks[si].id, "task")
               THEN saveData(appData')
               ELSE UNCHANGED <<cloud, feed>>
       \/ \E p \in Range(appData.recurringTasks) : \E si \in DOMAIN p.subtasks :
            /\ appData' = toggleSubtask(appData, p.id, p.subtasks[si].id, "recurring", now)
            /\ saveData(appData')
    /\ UNCHANGED <<rewardsGrid, spent>>
    /\ UiFrame

----------------------------------------------------------------------------
\* Reward and shop handlers

SaveNewReward ==
    /\ PageFree /\ CanSave
    /\ \/ \E item \in ShopTemplates :
            /\ item.id \notin Ids(appData.customShopItems)
            /\ appData' = [appData EXCEPT !.customShopItems = Append(@, item)]
       \/ \E reward \in RewardTemplates :
            /\ reward.id \notin Ids(appData.rewards)
            /\ appData' = [appData EXCEPT !.rewards = Append(@, reward)]
    /\ saveData(appData')
    /\ rewardsGrid' = renderRewards(appData', now)
    /\ UNCHANGED spent
    /\ UiFrame

ModalFrame == UNCHANGED <<appData, cloud, feed, now, isFirstLoad, localStorage,
                          rewardsGrid, spent, probe>>

OpenClaimModal ==
    /\ PageFree
    /\ appData.stats.rewardsClaimed < MaxClaims
    /\ \E r \in Range(appData.rewards) :
        /\ r.id \in rewardsGrid
        /\ currentRewardToClaim' = <<[reward |-> r, attached |-> TRUE]>>
        /\ currentShopItemToClaim' = <<>>
    /\ claimModalOpen' = TRUE
    /\ ModalFrame

OpenShopClaimModal ==
    /\ PageFree
    /\ appData.stats.rewardsClaimed < MaxClaims
    /\ \E item \in Range(appData.customShopItems) :
        /\ item.id \in rewardsGrid
        /\ currentShopItemToClaim' =
              <<[item |-> item, price |-> getShopItemPrice(appData, item, now, TRUE)]>>
    /\ claimModalOpen' = TRUE
    /\ UNCHANGED currentRewardToClaim
    /\ ModalFrame

CloseClaimModal ==
    /\ claimModalOpen
    /\ claimModalOpen' = FALSE
    /\ currentRewardToClaim' = <<>>
    /\ currentShopItemToClaim' = <<>>
    /\ ModalFrame

ConfirmClaimReward ==
    /\ claimModalOpen
    /\ IF currentShopItemToClaim # <<>>
       THEN LET claim == currentShopItemToClaim[1] IN
            IF ShopRejected(appData, claim)
            THEN /\ UNCHANGED <<appData, cloud, feed, rewardsGrid, spent>>
            ELSE /\ CanSave
                 /\ appData' = confirmShopClaim(appData, claim, now)
                 /\ saveData(appData')
                 /\ rewardsGrid' = renderRewards(appData', now)
                 /\ spent' = spent + claim.price
       ELSE IF currentRewardToClaim # <<>>
            THEN LET claim == currentRewardToClaim[1] IN
                 /\ CanSave
                 /\ appData' = confirmRewardClaim(appData, claim, now)
                 /\ saveData(appData')
                 /\ rewardsGrid' = renderRewards(appData', now)
                 /\ spent' = spent + claim.reward.cost
            ELSE /\ UNCHANGED <<appData, cloud, feed, rewardsGrid, spent>>
    /\ claimModalOpen' = FALSE
    /\ currentRewardToClaim' = <<>>
    /\ currentShopItemToClaim' = <<>>
    /\ UNCHANGED <<now, isFirstLoad, localStorage, probe>>

----------------------------------------------------------------------------

\* Task engine: one-off tasks, recurring tasks and their subtasks
Next ==
    \/ ClockAdvance
    \/ OnSnapshot
    \/ SaveNewTask
    \/ ToggleTask
    \/ UncompleteTask
    \/ ToggleRecurringTask
    \/ ToggleSubtask

Spec == Init /\ [][Next]_vars

\* Loading: a fresh key, a recovered legacy document, the load-time repairs
NextLoad ==
    \/ ClockAdvance
    \/ OnSnapshot
    \/ RecoverLegacy
    \/ SaveNewTask
    \/ ToggleRecurringTask

SpecLoad == Init /\ [][NextLoad]_vars

\* Rewards and the daily shop
NextShop ==
    \/ ClockAdvance
    \/ OnSnapshot
    \/ SaveNewTask
    \/ ToggleRecurringTask
    \/ SaveNewReward
    \/ OpenClaimModal
    \/ OpenShopClaimModal
    \/ CloseClaimModal
    \/ ConfirmClaimReward

SpecShop == Init /\ [][NextShop]_vars

----------------------------------------------------------------------------
\* getShopItemPrice as a function of the item, the purchase records and the instant:
\* the probe asks the price, records it, and tracks the purchase as
\* confirmClaimReward does. Multiplicative items scale by a perfect square, for
\* which Math.sqrt and Math.pow are exact.

MaxAsked == 4

PriceItems ==
    {ShopItem("s1", b, s, "add") : b \in {15, 40}, s \in {0, 5, 10}}
    \cup {ShopItem("s1", b, s, "multiply") : b \in {15, 40}, s \in {1, 4}}

Idle ==
    /\ appData = DefaultAppData
    /\ cloud = <<>>
    /\ feed = << <<>> >>
    /\ now = Instant(0, 2)
    /\ isFirstLoad = TRUE
    /\ localStorage = {}
    /\ currentRewardToClaim = <<>>
    /\ currentShopItemToClaim = <<>>
    /\ claimModalOpen = FALSE
    /\ rewardsGrid = {}
    /\ spent = 0

IdleFrame == UNCHANGED <<appData, cloud, feed, now, isFirstLoad, localStorage,
                         currentRewardToClaim, currentShopItemToClaim, claimModalOpen,
                         rewardsGrid, spent>>

InitPrice ==
    /\ Idle
    /\ \E item \in PriceItems :
         probe = [fn |-> "getShopItemPrice", item |-> item, t |-> Instant(0, 2),
                  purchases |-> {}, asked |-> <<>>]

AskPrice ==
    /\ probe.fn = "getShopItemPrice"
    /\ Len(probe.asked) < MaxAsked
    /\ LET a == [DefaultAppData EXCEPT !.shopPurchases = probe.purchases]
           d == getResetDateString(probe.t)
       IN probe' = [probe EXCEPT
                      !.asked = Append(@, [date |-> d,
                                           sale |-> isWeekendSale(probe.t),
                                           price |-> getShopItemPrice(a, probe.item,
                                                                      probe.t, TRUE)]),
                      !.purchases = TrackPurchase(@, probe.item.id, d)]
    /\ IdleFrame

PriceClock ==
    /\ probe.fn = "getShopItemPrice"
    /\ NextInstant(probe.t).day <= MaxDay
    /\ probe' = [probe EXCEPT !.t = NextInstant(@)]
    /\ IdleFrame

NextPrice == AskPrice \/ PriceClock

SpecPrice == InitPrice /\ [][NextPrice]_vars

----------------------------------------------------------------------------
\* isTaskActiveOnDate as a function of the recurring task and the date: the probe
\* walks the calendar a day at a time and records the answers. Dates are compared
\* after setHours(0, 0, 0, 0), that is by their day.

MaxBack == 3
MaxAhead == 7
MaxActiveDays == 3
MaxBreakDays == 2

\* saveNewTask: a recurring task created on day 0 whose cycle started daysAgo earlier
IntervalTask(activeDays, breakDays, daysAgo) ==
    [type |-> "interval", createdAt |-> <<Instant(0, 12)>>,
     activeDays |-> activeDays, breakDays |-> breakDays,
     cycleStartDate |-> <<Instant(0 - daysAgo, ResetHour)>>]

DailyTask ==
    [type |-> "daily", createdAt |-> <<Instant(0, 12)>>, activeDays |-> 0,
     breakDays |-> 0, cycleStartDate |-> <<>>]

\* isTaskActiveOnDate with the day after the active run counted as active
isTaskActiveOnDateOffByOne(task, date) ==
    LET checkDate == date.day IN
    IF task.createdAt # <<>> /\ checkDate < task.createdAt[1].day THEN FALSE
    ELSE IF task.type = "daily" THEN TRUE
    ELSE IF task.type = "interval" /\ task.cycleStartDate # <<>>
         THEN LET daysDiff == checkDate - task.cycleStartDate[1].day
              IN IF daysDiff < 0 THEN FALSE
                 ELSE (daysDiff % (task.activeDays + task.breakDays)) <= task.activeDays
         ELSE TRUE

isTaskActiveOnDate(task, date) ==
    LET checkDate == date.day IN
    IF task.createdAt # <<>> /\ checkDate < task.createdAt[1].day THEN FALSE
    ELSE IF task.type = "daily" THEN TRUE
    ELSE IF task.type = "interval" /\ task.cycleStartDate # <<>>
         THEN LET cycleStart == task.cycleStartDate[1].day
                  daysDiff == checkDate - cycleStart
                  cycleLength == task.activeDays + task.breakDays
              IN IF daysDiff < 0 THEN FALSE
                 ELSE (daysDiff % cycleLength) < task.activeDays
         ELSE TRUE

SchedTasks ==
    {IntervalTask(a, b, ago) : a \in 1..MaxActiveDays, b \in 1..MaxBreakDays,
                               ago \in 0..(MaxBack - 1)}
    \cup {DailyTask}

InitSched ==
    /\ Idle
    /\ \E task \in SchedTasks :
         probe = [fn |-> "isTaskActiveOnDate", task |-> task, first |-> 0 - MaxBack,
                  answers |-> <<>>]

\* the day the next answer is about
SchedDay(p) == p.first + Len(p.answers)

AskActive ==
    /\ probe.fn = "isTaskActiveOnDate"
    /\ SchedDay(probe) <= MaxAhead
    /\ \E hour \in {2, 12} :
         probe' = [probe EXCEPT
                     !.answers = Append(@, isTaskActiveOnDate(probe.task,
                                            Instant(SchedDay(probe), hour)))]
    /\ IdleFrame

NextSched == AskActive

SpecSched == InitSched /\ [][NextSched]_vars

----------------------------------------------------------------------------
\* Properties of the ledger

Numeric(stats) == ~stats.totalCoinsEarned.nan /\ ~stats.currentBalance.nan

\* C1: in every reachable state totalCoinsEarned - currentBalance equals the sum of
\* the prices debited by the reward claims and shop purchases made so far
EconomyInvariant ==
    /\ Numeric(appData.stats)
    /\ appData.stats.totalCoinsEarned.v - appData.stats.currentBalance.v = spent

MaxRepeat == 3

RECURSIVE RoundTrips(_, _, _, _)
RoundTrips(a, id, t, n) ==
    IF n = 0 THEN a
    ELSE RoundTrips(uncompleteTask(toggleTask(a, id, t), id), id, t, n - 1)

\* C2: for every task of the active list and the stats of any reachable state,
\* toggleTask then uncompleteTask, once or repeated, restores the balance, the
\* earned total and the task's difficulty counter, leaves completedHistory as it
\* was, and returns the task to the active list not completed, without completedAt
RoundTripRestores ==
    \A i \in DOMAIN appData.tasks : \A n \in 1..MaxRepeat :
        LET task == appData.tasks[i]
            b == RoundTrips(appData, task.id, now, n)
        IN /\ b.stats.currentBalance = appData.stats.currentBalance
           /\ b.stats.totalCoinsEarned = appData.stats.totalCoinsEarned
           /\ b.stats.tasksCompleted[task.difficulty]
                = appData.stats.tasksCompleted[task.difficulty]
           /\ b.completedHistory = appData.completedHistory
           /\ Len(b.tasks) = Len(appData.tasks)
           /\ Range(b.tasks) = Range(appData.tasks)
           /\ \E j \in DOMAIN b.tasks :
                 /\ b.tasks[j].id = task.id
                 /\ ~b.tasks[j].completed
                 /\ b.tasks[j].completedAt = <<>>

\* a task whose subtasks are all checked is back in the active list: its last
\* subtask completed it through toggleTask and uncompleteTask returned it
RoundTripHappened ==
    \E i \in DOMAIN appData.tasks :
        /\ appData.tasks[i].subtasks # <<>>
        /\ allCompleted(appData.tasks[i])
        /\ ~appData.tasks[i].completed
        /\ appData.completedHistory # <<>>

\* C3: completedHistory never holds two recurring entries of one recurring task
\* with the same app-date, whatever toggles and load-time repairs have run
OneEntryPerDay ==
    \A i, j \in DOMAIN appData.completedHistory :
        LET h == appData.completedHistory[i]
            g == appData.completedHistory[j]
        IN (/\ h.isRecurring /\ g.isRecurring
            /\ h.completedAt # <<>> /\ g.completedAt # <<>>
            /\ h.recurringId = g.recurringId
            /\ EntryDate(h) = EntryDate(g)) => i = j

----------------------------------------------------------------------------
\* Properties of distributed subtasks

RECURSIVE SumSubtaskCoins(_)
SumSubtaskCoins(subs) ==
    IF subs = <<>> THEN 0 ELSE Head(subs).coins + SumSubtaskCoins(Tail(subs))

\* the subtask checkboxes of a parent ticked one by one, first to last
RECURSIVE CompleteSubtasks(_, _, _, _, _)
CompleteSubtasks(a, parent, type, t, k) ==
    IF k = 0 THEN a
    ELSE toggleSubtask(CompleteSubtasks(a, parent, type, t, k - 1),
                       parent.id, parent.subtasks[k].id, type, t)

\* a parent with distributed coins that sum to its tier reward, nothing ticked yet
Distributed(parent) ==
    /\ parent.distributeCoins
    /\ parent.subtasks # <<>>
    /\ \A k \in DOMAIN parent.subtasks : ~parent.subtasks[k].completed
    /\ SumSubtaskCoins(parent.subtasks) = DIFFICULTIES[parent.difficulty]

CreditedOnce(a, b, parent) ==
    /\ b.stats.currentBalance = JsAdd(a.stats.currentBalance,
                                      Num(DIFFICULTIES[parent.difficulty]))
    /\ b.stats.totalCoinsEarned = JsAdd(a.stats.totalCoinsEarned,
                                        Num(DIFFICULTIES[parent.difficulty]))

\* C4: ticking every subtask of a distributed parent, one-off or recurring,
\* completes the parent and credits the tier reward to the balance and to the
\* earned total exactly once over the whole sequence
DistributedCreditedOnce ==
    /\ \A i \in DOMAIN appData.tasks :
         LET parent == appData.tasks[i]
             b == CompleteSubtasks(appData, parent, "task", now, Len(parent.subtasks))
         IN (Distributed(parent) /\ Numeric(appData.stats)) =>
               /\ parent.id \in Ids(b.completedHistory)
               /\ CreditedOnce(appData, b, parent)
    /\ \A i \in DOMAIN appData.recurringTasks :
         LET parent == appData.recurringTasks[i]
             b == CompleteSubtasks(appData, parent, "recurring", now,
                                   Len(parent.subtasks))
         IN (/\ Distributed(parent) /\ Numeric(appData.stats)
             /\ ~isRecurringCompletedToday(appData, parent.id, now)) =>
               /\ isRecurringCompletedToday(b, parent.id, now)
               /\ CreditedOnce(appData, b, parent)

\* what a distributed subtask takes back when it is unticked
OwnCoins(parent, k) ==
    IF parent.distributeCoins /\ parent.subtasks[k].coins > 0
    THEN parent.subtasks[k].coins ELSE 0

\* C5: unticking a subtask of a parent that is already completed (a one-off task
\* completed today, a recurring task done today) takes the parent back through the
\* inverse transition: the tier coins leave the balance and the earned total once,
\* the difficulty counter goes down by one, the completion-map entry and today's
\* history entry are gone, and the next toggle of the parent completes it
UntickReopensParent ==
    /\ \A h \in todayCompletedTasks(appData, now) : \A k \in DOMAIN h.subtasks :
         LET b == toggleSubtask(appData, h.id, h.subtasks[k].id, "task", now)
             back == Num(DIFFICULTIES[h.difficulty] + OwnCoins(h, k))
         IN (h.subtasks[k].completed /\ Numeric(appData.stats)) =>
               /\ h.id \in Ids(b.tasks)
               /\ h.id \notin Ids(b.completedHistory)
               /\ b.stats.currentBalance = JsSub(appData.stats.currentBalance, back)
               /\ b.stats.totalCoinsEarned = JsSub(appData.stats.totalCoinsEarned, back)
               /\ b.stats.tasksCompleted[h.difficulty]
                    = appData.stats.tasksCompleted[h.difficulty] - 1
    /\ \A i \in DOMAIN appData.recurringTasks :
         \A k \in DOMAIN appData.recurringTasks[i].subtasks :
         LET parent == appData.recurringTasks[i]
             b == toggleSubtask(appData, parent.id, parent.subtasks[k].id,
                                "recurring", now)
             back == Num(DIFFICULTIES[parent.difficulty] + OwnCoins(parent, k))
         IN (/\ parent.subtasks[k].completed /\ Numeric(appData.stats)
             /\ allCompleted(parent)
             /\ isRecurringCompletedToday(appData, parent.id, now)
             /\ TodaysEntries(appData, parent.id, now) # {}) =>
               /\ ~Has(b.recurringCompletions, parent.id)
               /\ TodaysEntries(b, parent.id, now) = {}
               /\ b.stats.currentBalance = JsSub(appData.stats.currentBalance, back)
               /\ b.stats.totalCoinsEarned = JsSub(appData.stats.totalCoinsEarned, back)
               /\ b.stats.tasksCompleted[parent.difficulty]
                    = appData.stats.tasksCompleted[parent.difficulty] - 1
               /\ isRecurringCompletedToday(toggleRecurringTask(b, parent.id, now),
                                            parent.id, now)

----------------------------------------------------------------------------
\* Properties of the shop

PendingPrice ==
    IF currentShopItemToClaim # <<>> THEN currentShopItemToClaim[1].price
    ELSE IF currentRewardToClaim # <<>> THEN currentRewardToClaim[1].reward.cost
    ELSE 0

\* C6: a purchase or a flat-reward claim confirmed while its price exceeds the
\* balance is rejected before any mutation: the balance, rewardsClaimed, the
\* purchase records and the rewards are unchanged
UnaffordableRejected ==
    [][(/\ claimModalOpen /\ ~claimModalOpen'
        /\ JsLt(appData.stats.currentBalance, Num(PendingPrice)))
       => appData' = appData]_vars

ShopPurchaseStep ==
    /\ claimModalOpen /\ ~claimModalOpen'
    /\ currentShopItemToClaim # <<>>
    /\ appData'.stats.rewardsClaimed = appData.stats.rewardsClaimed + 1

RecordAfterPurchase ==
    LET id == currentShopItemToClaim[1].item.id
        D == getResetDateString(now)
    IN /\ Has(appData'.shopPurchases, id)
       /\ Get(appData'.shopPurchases, id).lastResetDate = D
       /\ Get(appData'.shopPurchases, id).count =
             IF \/ ~Has(appData.shopPurchases, id)
                \/ Get(appData.shopPurchases, id).lastResetDate # D
             THEN 1
             ELSE Get(appData.shopPurchases, id).count + 1

StaleRecord(item) ==
    /\ Has(appData.shopPurchases, item.id)
    /\ Get(appData.shopPurchases, item.id).lastResetDate # getResetDateString(now)

FirstPriceIsBase ==
    \A i \in DOMAIN appData.customShopItems :
        LET item == appData.customShopItems[i] IN
        StaleRecord(item) =>
            getShopItemPrice(appData, item, now, TRUE)
              = IF isWeekendSale(now) THEN item.baseCost - (item.baseCost \div 2)
                ELSE item.baseCost

\* C8: a successful shop purchase on reset-date D leaves the record with
\* lastResetDate = D and count 1 when the record was absent or of another date,
\* otherwise the previous count + 1; the passing of 06:00 clears no record, and a
\* record of another reset-date is read as count 0, the price being the base price
\* (the sale base price in a sale window)
PurchaseRecordTracked ==
    /\ []FirstPriceIsBase
    /\ [][/\ ShopPurchaseStep => RecordAfterPurchase
          /\ now' # now => appData'.shopPurchases = appData.shopPurchases]_vars

\* two purchases before 06:00 and the record still there after it
StaleRecordKept ==
    \E i \in DOMAIN appData.customShopItems :
        /\ StaleRecord(appData.customShopItems[i])
        /\ Get(appData.shopPurchases, appData.customShopItems[i].id).count = 2

----------------------------------------------------------------------------
\* Properties of getShopItemPrice

\* the purchases made earlier on the reset-date of the i-th price
CountBefore(asked, i) ==
    Cardinality({j \in 1..(i - 1) : asked[j].date = asked[i].date})

HasIncrement(item) ==
    \/ item.scalingType = "multiply" /\ item.scaling > 1
    \/ item.scalingType = "add" /\ item.scaling > 0

SameDay(asked, i, j) == j \in DOMAIN asked /\ asked[i].date = asked[j].date

----------------------------------------------------------------------------
\* Properties of isTaskActiveOnDate

AnsweredDay(i) == probe.first + i - 1

InCycle(task, d) ==
    LET daysSinceStart == d - task.cycleStartDate[1].day IN
    /\ daysSinceStart >= 0
    /\ daysSinceStart % (task.activeDays + task.breakDays) < task.activeDays

\* the same answer at every time of the day
SameAllDay(task) ==
    \A d \in (0 - MaxBack)..MaxAhead :
        isTaskActiveOnDate(task, Instant(d, 2)) = isTaskActiveOnDate(task, Instant(d, 12))

\* C10 as stated: an interval task is active on a date iff daysSinceStart >= 0 and
\* daysSinceStart mod (activeDays + breakDays) < activeDays
ActiveIffInCycle ==
    probe.task.type = "interval" =>
    \A i \in DOMAIN probe.answers :
        probe.answers[i] = InCycle(probe.task, AnsweredDay(i))

\* C10 amended: the answer depends on the task and the day only; an interval task
\* is active on a day iff the day is not before the day the task was created,
\* daysSinceStart >= 0 and daysSinceStart mod (activeDays + breakDays) < activeDays;
\* a task created on its cycle start with activeDays = 3 and breakDays = 1 answers
\* A,A,A,I,A,A,A,I for days 0..7
ActiveIffCreatedAndInCycle ==
    probe.task.type = "interval" =>
    /\ SameAllDay(probe.task)
    /\ \A i \in DOMAIN probe.answers :
         LET d == AnsweredDay(i) IN
         /\ probe.answers[i] = (/\ d >= probe.task.createdAt[1].day
                                /\ InCycle(probe.task, d))
         /\ (probe.task = IntervalTask(3, 1, 0) /\ d \in 0..7) =>
               probe.answers[i] =
                  <<TRUE, TRUE, TRUE, FALSE, TRUE, TRUE, TRUE, FALSE>>[d + 1]

\* the 3 + 1 task asked about each of the days 0..7
PatternAnswered ==
    /\ probe.task = IntervalTask(3, 1, 0)
    /\ AnsweredDay(Len(probe.answers)) = 7

----------------------------------------------------------------------------
\* shouldShowIntervalTask, the check renderTasks makes at the present time, asked
\* side by side with isTaskActiveOnDate for today's app-date. The task is created
\* by saveNewTask at the first instant of the walk.

MaxShown == 6

\* the % of JavaScript: the remainder takes the sign of the dividend
JsRem(a, n) == IF a >= 0 THEN a % n ELSE 0 - ((0 - a) % n)

\* saveNewTask at instant created: the cycle starts daysAgo calendar days earlier,
\* at 06:00
IntervalTaskAt(activeDays, breakDays, daysAgo, created) ==
    [type |-> "interval", createdAt |-> <<created>>,
     activeDays |-> activeDays, breakDays |-> breakDays,
     cycleStartDate |-> <<Instant(created.day - daysAgo, ResetHour)>>]

shouldShowIntervalTask(task, t) ==
    IF task.type = "daily" THEN TRUE
    ELSE IF task.type # "interval" \/ task.cycleStartDate = <<>> THEN TRUE
    ELSE LET today == AppDate(t)
             startDate == task.cycleStartDate[1].day
             daysSinceStart == today - startDate
             totalCycle == task.activeDays + task.breakDays
             dayInCycle == JsRem(daysSinceStart, totalCycle)
         IN dayInCycle < task.activeDays

ShowTasks ==
    {IntervalTaskAt(a, b, ago, Instant(0, h)) :
        a \in 1..MaxActiveDays, b \in 1..MaxBreakDays, ago \in 0..(MaxBack - 1),
        h \in {2, 12}}
    \cup {DailyTask}

InitShow ==
    /\ Idle
    /\ \E task \in ShowTasks :
         probe = [fn |-> "shouldShowIntervalTask", task |-> task,
                  t |-> task.createdAt[1], shown |-> <<>>]

\* renderTasks and the analytics run at the same instant; then the clock moves on
AskShown ==
    /\ probe.fn = "shouldShowIntervalTask"
    /\ Len(probe.shown) < MaxShown
    /\ probe' = [probe EXCEPT
                   !.shown = Append(@,
                       [t |-> probe.t,
                        show |-> shouldShowIntervalTask(probe.task, probe.t),
                        active |-> isTaskActiveOnDate(probe.task,
                                       Instant(getTodayDateString(probe.t), 12))]),
                   !.t = NextInstant(@)]
    /\ IdleFrame

NextShow == AskShown

SpecShow == InitShow /\ [][NextShow]_vars

\* C11: at every current time shouldShowIntervalTask and isTaskActiveOnDate for
\* today's app-date give the same answer, before 06:00 and before the cycle start
\* included
ShowEqualsActive ==
    \A i \in DOMAIN probe.shown : probe.shown[i].show = probe.shown[i].active

----------------------------------------------------------------------------
\* The places that assign an instant to a day, asked about the same instant, and
\* the streak of the desktop build, which toggleTask and toggleRecurringTask
\* update on every completion.

MaxActivities == 4

\* renderHistory: the date a history entry is grouped under
historyGroupDate(ts) == IF ts.hour < ResetHour THEN ts.day - 1 ELSE ts.day

\* calculateRecurringConsistency: the date a completion is compared with a bucket
bucketDate(ts) == IF ts.hour < ResetHour THEN ts.day - 1 ELSE ts.day

\* new Date(x).toDateString(): the local calendar date
toDateString(ts) == ts.day

NoStreak == [currentStreak |-> 0, bestStreak |-> 0, lastActiveDate |-> <<>>]

updateStreak(streak, t) ==
    LET today == toDateString(t)
        yesterday == toDateString(Instant(t.day - 1, t.hour))
        counted ==
            IF streak.lastActiveDate = <<>>
            THEN [streak EXCEPT !.currentStreak = 1, !.bestStreak = 1]
            ELSE LET lastDate == toDateString(streak.lastActiveDate[1]) IN
                 IF lastDate = today THEN streak
                 ELSE IF lastDate = yesterday
                      THEN [streak EXCEPT
                              !.currentStreak = @ + 1,
                              !.bestStreak = IF streak.currentStreak + 1 > @
                                             THEN streak.currentStreak + 1 ELSE @]
                      ELSE [streak EXCEPT !.currentStreak = 1]
    IN [counted EXCEPT !.lastActiveDate = <<t>>]

InitDay ==
    /\ Idle
    /\ \E h \in {2, 12} :
         probe = [fn |-> "updateStreak", t |-> Instant(0, h), streak |-> NoStreak,
                  log |-> <<>>]

\* a completion at the present instant
Activity ==
    /\ probe.fn = "updateStreak"
    /\ Len(probe.log) < MaxActivities
    /\ probe' = [probe EXCEPT
                   !.streak = updateStreak(@, probe.t),
                   !.log = Append(@, [t |-> probe.t,
                                      key |-> getTodayDateString(probe.t),
                                      reset |-> getResetDateString(probe.t),
                                      group |-> historyGroupDate(probe.t),
                                      bucket |-> bucketDate(probe.t),
                                      streakDay |-> toDateString(probe.t),
                                      streak |-> updateStreak(probe.streak,
                                                              probe.t).currentStreak])]
    /\ IdleFrame

\* the clock moves to the next instant, or a whole day on
DayClock ==
    /\ probe.fn = "updateStreak"
    /\ probe.t.day < MaxActivities
    /\ \/ probe' = [probe EXCEPT !.t = NextInstant(@)]
       \/ probe' = [probe EXCEPT !.t = Instant(@.day + 1, @.hour)]
    /\ IdleFrame

NextDay == Activity \/ DayClock

SpecDay == InitDay /\ [][NextDay]_vars

\* the rule: before 06:00 the previous calendar date, from 06:00 on the same date
RuleDay(ts) == IF ts.hour < 6 THEN ts.day - 1 ELSE ts.day

\* C12: the completion-map key, the shop reset-date, the history group, the
\* analytics bucket and the day the streak update counts are the same day for any
\* instant, the previous calendar date before 06:00 and the same date from 06:00
\* on; two completions of one such day leave the streak as it is
OneDayRule ==
    \A i \in DOMAIN probe.log :
        LET e == probe.log[i] IN
        /\ e.key = RuleDay(e.t)
        /\ e.reset = RuleDay(e.t)
        /\ e.group = RuleDay(e.t)
        /\ e.bucket = RuleDay(e.t)
        /\ e.streakDay = RuleDay(e.t)
        /\ (i > 1 /\ RuleDay(probe.log[i - 1].t) = RuleDay(e.t)) =>
               e.streak = probe.log[i - 1].streak

\* C13: every entry of recurringCompletions maps its task to the current app-date
\* (an entry of the previous app-date is gone once the clock has passed 06:00)
CompletionsAreToday ==
    \A e \in appData.recurringCompletions : e.v = getTodayDateString(now)

\* the one-off records of completedHistory, in order
OneOffHistory ==
    FilterSeq(appData.completedHistory,
              {h \in Range(appData.completedHistory) : ~h.isRecurring})

NoDuplicateId(list) ==
    \A i, j \in DOMAIN list : list[i].id = list[j].id => i = j

\* C14: each one-off task is in exactly one of the active list and
\* completedHistory, never in both and never twice in one of them; its completed
\* flag is false in the active list and true in history
TaskInOnePlace ==
    /\ Ids(appData.tasks) \cap Ids(OneOffHistory) = {}
    /\ NoDuplicateId(appData.tasks)
    /\ NoDuplicateId(OneOffHistory)
    /\ \A i \in DOMAIN appData.tasks : ~appData.tasks[i].completed
    /\ \A i \in DOMAIN OneOffHistory : OneOffHistory[i].completed

\* one task is in history while another is back in the active list after its
\* completion through its last subtask was undone
CompletedAndReopened ==
    /\ OneOffHistory # <<>>
    /\ \E i \in DOMAIN appData.tasks :
         /\ appData.tasks[i].subtasks # <<>>
         /\ allCompleted(appData.tasks[i])

----------------------------------------------------------------------------
\* The desktop build: dates are the date part of toISOString(), the UTC date.
\* tz is the zone's offset from UTC in hours.

MaxDeskDay == 1
MaxDeskHistory == 3
Zones == {0 - 8, 0, 9}

\* x.toISOString().split('T')[0] of a local instant
IsoDate(ts, tz) ==
    IF ts.hour - tz < 0 THEN ts.day - 1
    ELSE IF ts.hour - tz >= 24 THEN ts.day + 1
    ELSE ts.day

getTodayDateStringDesktop(t, tz) ==
    IsoDate(IF t.hour < 6 THEN Instant(t.day - 1, t.hour) ELSE t, tz)

isRecurringCompletedTodayDesktop(a, taskId, t, tz) ==
    /\ Has(a.recurringCompletions, taskId)
    /\ Get(a.recurringCompletions, taskId) = getTodayDateStringDesktop(t, tz)

toggleRecurringTaskDesktop(a, id, t, tz) ==
    LET idx == IndexOfId(a.recurringTasks, id) IN
    IF idx = 0 THEN a
    ELSE LET task == a.recurringTasks[idx]
             today == getTodayDateStringDesktop(t, tz)
             coins == Num(DIFFICULTIES[task.difficulty])
         IN IF isRecurringCompletedTodayDesktop(a, id, t, tz)
            THEN LET historyIndex ==
                         FindIndex(a.completedHistory,
                                   {h \in Range(a.completedHistory) :
                                       /\ h.recurringId = id
                                       /\ h.completedAt # <<>>
                                       /\ IsoDate(h.completedAt[1], tz) = today})
                 IN [a EXCEPT
                       !.stats = decrementTaskCount(Debit(a.stats, coins), task.difficulty),
                       !.recurringCompletions = Delete(@, id),
                       !.completedHistory =
                           IF historyIndex # 0 THEN Splice(@, historyIndex) ELSE @]
            ELSE [a EXCEPT
                    !.stats = incrementTaskCount(Credit(a.stats, coins), task.difficulty),
                    !.recurringCompletions = Put(@, id, today),
                    !.completedHistory =
                        Unshift(@, RecurringEntry("recurring_" \o id, id, task.difficulty, t, NaN))]

\* the state after init() of a first run
InitDesk ==
    /\ Idle
    /\ \E tz \in Zones, h \in {2, 12} :
         probe = [fn |-> "desktop", tz |-> tz, t |-> Instant(0, h),
                  data |-> addPresets(DefaultAppData), streak |-> NoStreak]

DeskToggleRecurringTask ==
    /\ probe.fn = "desktop"
    /\ Len(probe.data.completedHistory) < MaxDeskHistory
    /\ \E id \in Ids(probe.data.recurringTasks) :
         probe' = [probe EXCEPT
                     !.data = toggleRecurringTaskDesktop(@, id, probe.t, probe.tz),
                     !.streak = IF isRecurringCompletedTodayDesktop(probe.data, id,
                                                                   probe.t, probe.tz)
                                THEN @ ELSE updateStreak(@, probe.t)]
    /\ IdleFrame

DeskClock ==
    /\ probe.fn = "desktop"
    /\ NextInstant(probe.t).day <= MaxDeskDay
    /\ probe' = [probe EXCEPT !.t = NextInstant(@)]
    /\ IdleFrame

NextDesk == DeskToggleRecurringTask \/ DeskClock

SpecDesk == InitDesk /\ [][NextDesk]_vars

DeskDue ==
    {id \in Ids(probe.data.recurringTasks) :
        ~isRecurringCompletedTodayDesktop(probe.data, id, probe.t, probe.tz)}

DeskTwice(id) ==
    toggleRecurringTaskDesktop(
        toggleRecurringTaskDesktop(probe.data, id, probe.t, probe.tz), id, probe.t, probe.tz)

\* C15: completing a due recurring task and un-completing it at once gives back the
\* balance, the earned total, the per-difficulty counter, recurringCompletions and
\* completedHistory of before, at 02:00 as at 12:00
DoubleToggleRestores ==
    \A id \in DeskDue :
        /\ DeskTwice(id).stats = probe.data.stats
        /\ DeskTwice(id).recurringCompletions = probe.data.recurringCompletions
        /\ DeskTwice(id).completedHistory = probe.data.completedHistory

----------------------------------------------------------------------------
\* Loading again: the page is reloaded on this device, or opened on another one
\* whose localStorage is empty. The probe records what the load found stored.

\* the stored snapshot carries the marks of every repair: the three flags and the
\* entries of the Jan 31 backfill
Repaired(doc) ==
    /\ doc.stats.economy_recalc_2026_01
    /\ doc.stats.weekend_sale_refund_2026_01_18
    /\ doc.stats.jan20_missing_tasks_fix_v2
    /\ \E h \in Range(doc.completedHistory) :
         h.completedAt # <<>> /\ h.completedAt[1] = backfillDate

Reload ==
    /\ \E other \in BOOLEAN :
         /\ localStorage' = IF other THEN {} ELSE localStorage
         /\ probe' = [fn |-> "reload", other |-> other,
                      repaired |-> cloud # <<>> /\ Repaired(cloud[1])]
    /\ appData' = DefaultAppData
    /\ feed' = <<cloud>>
    /\ isFirstLoad' = TRUE
    /\ currentRewardToClaim' = <<>>
    /\ currentShopItemToClaim' = <<>>
    /\ claimModalOpen' = FALSE
    /\ rewardsGrid' = {}
    /\ UNCHANGED <<now, cloud, spent>>

NextReload ==
    \/ ClockAdvance
    \/ OnSnapshot
    \/ RecoverLegacy
    \/ Reload
    \/ SaveNewTask
    \/ ToggleRecurringTask

SpecReload == Init /\ [][NextReload]_vars

SameTotals(a, b) ==
    /\ a.stats.totalCoinsEarned = b.stats.totalCoinsEarned
    /\ a.stats.currentBalance = b.stats.currentBalance
    /\ a.stats.tasksCompleted = b.stats.tasksCompleted
    /\ a.completedHistory = b.completedHistory

KnownIds ==
    Ids(appData.tasks) \cup Ids(appData.completedHistory) \cup Ids(appData.recurringTasks)
    \cup UNION {Ids(x.subtasks) : x \in Range(appData.tasks) \cup Range(appData.recurringTasks)}
    \cup {"none"}

----------------------------------------------------------------------------
\* Expiring tasks and the minute timer of init()

MaxSweepDay == 1

\* the clock as the timer finds it: 02:00, 06:00 and 12:00 of each day
NextTick(t) ==
    IF t.hour < 6 THEN Instant(t.day, 6)
    ELSE IF t.hour < 12 THEN Instant(t.day, 12)
    ELSE Instant(t.day + 1, 2)

\* saveNewTask, the expiration of a regular task: none, a custom date and time, or
\* the next 06:00 plus a number of days
next6AM(t, expirationDays) ==
    Instant((IF t.hour >= 6 THEN t.day + 1 ELSE t.day) + expirationDays, 6)

Expirations(t) ==
    {<<>>, <<Instant(0, 12)>>, <<NextTick(t)>>, <<next6AM(t, 0)>>}

SaveNewTaskExpiring ==
    /\ PageFree /\ CanSave
    /\ \E task \in TaskTemplates, e \in Expirations(now) :
         /\ task.id \notin Ids(appData.tasks) \cup Ids(appData.completedHistory)
         /\ appData' = [appData EXCEPT !.tasks = Unshift(@, [task EXCEPT !.expiresAt = e])]
    /\ saveData(appData')
    /\ UNCHANGED <<rewardsGrid, spent>>
    /\ UiFrame

\* setInterval: a minute later cleanupExpiredTasks and renderTasks run; the probe
\* keeps the expiredTasks the sweep found
MinuteTimer ==
    /\ CanSave
    /\ NextTick(now).day <= MaxSweepDay
    /\ now' = NextTick(now)
    /\ appData' = cleanupExpiredTasks(appData, now')
    /\ IF Expired(appData, now') # {}
       THEN saveData(appData')
       ELSE UNCHANGED <<cloud, feed>>
    /\ probe' = [fn |-> "cleanupExpiredTasks", expiredTasks |-> Expired(appData, now')]
    /\ UNCHANGED <<isFirstLoad, localStorage, currentRewardToClaim, currentShopItemToClaim,
                   claimModalOpen, rewardsGrid, spent>>

NextSweep ==
    \/ MinuteTimer
    \/ OnSnapshot
    \/ SaveNewTaskExpiring
    \/ ToggleTask

SpecSweep == Init /\ [][NextSweep]_vars

Passed(x, t) ==
    /\ x.expiresAt # <<>>
    /\ \/ x.expiresAt[1].day < t.day
       \/ x.expiresAt[1].day = t.day /\ x.expiresAt[1].hour <= t.hour

\* b is a with exactly the tasks gone whose expiresAt is at or before t
SweptFrom(a, b, t) ==
    /\ \A i \in DOMAIN a.tasks : (a.tasks[i] \in Range(b.tasks)) <=> ~Passed(a.tasks[i], t)
    /\ b.tasks = FilterSeq(a.tasks, Range(b.tasks))
    /\ b.completedHistory = a.completedHistory
    /\ b.stats = a.stats

\* C18: a sweep, of the minute timer or of a later snapshot (the step that takes
\* the head of the feed), removes from the active list exactly the tasks whose
\* expiresAt is at or before now, keeps the others in their order, appends nothing
\* to completedHistory and leaves the totals and the counters as they were
SweepRemovesExpired ==
    [][/\ now' # now => SweptFrom(appData, appData', now')
       /\ (/\ now' = now /\ ~isFirstLoad
           /\ feed # <<>> /\ Head(feed) # <<>> /\ Len(feed') <= Len(feed))
              => SweptFrom(Merge(appData, Head(feed)[1]), appData', now)]_vars

\* a sweep has taken the task t1 at the very instant of its expiresAt, next to a
\* task that stays and an entry of history
SweptAtDeadline ==
    /\ probe.fn = "cleanupExpiredTasks"
    /\ \E x \in probe.expiredTasks : x.expiresAt = <<now>>
    /\ \E x \in Range(appData.tasks) : x.expiresAt # <<>>
    /\ appData.completedHistory # <<>>

----------------------------------------------------------------------------
\* The consistency chart of the progress tab

MaxStatsDay == 2

\* x < y of two Date objects
Before(x, y) == x.day < y.day \/ (x.day = y.day /\ x.hour < y.hour)

Earliest(S) == CHOOSE x \in S : \A y \in S : ~Before(y, x)

getFirstUseDate(a, t) ==
    LET stamps == {h.completedAt[1] : h \in {e \in Range(a.completedHistory) : e.completedAt # <<>>}}
                  \cup {r.createdAt[1] : r \in {e \in Range(a.recurringTasks) : e.createdAt # <<>>}}
    IN IF stamps = {} THEN t ELSE Earliest(stamps)

\* the body of every day loop: the tasks active on the date and, of these, the ones
\* with a recurring entry of history on it
activeTaskIds(a, date) ==
    {r.id : r \in {e \in Range(a.recurringTasks) : isTaskActiveOnDate(e, date)}}

completedOnDay(a, date) ==
    {h.recurringId : h \in {e \in Range(a.completedHistory) :
        /\ e.isRecurring /\ e.completedAt # <<>>
        /\ bucketDate(e.completedAt[1]) = date.day
        /\ e.recurringId # ""
        /\ e.recurringId \in activeTaskIds(a, date)}}

DayRate(a, date) ==
    [day |-> date.day, count |-> Cardinality(completedOnDay(a, date)),
     expected |-> Cardinality(activeTaskIds(a, date))]

\* the daily range: the dates now - i days, i from daysToShow - 1 down to 0
RECURSIVE DailyFrom(_, _, _)
DailyFrom(a, t, i) ==
    IF i < 0 THEN <<>>
    ELSE LET date == Instant(t.day - i, t.hour) IN
         (IF activeTaskIds(a, date) = {} THEN <<>> ELSE <<DayRate(a, date)>>)
         \o DailyFrom(a, t, i - 1)

\* the day loop without the skip of the days on which no task is active
RECURSIVE dailyRatesWithIdleDays(_, _, _, _, _)
dailyRatesWithIdleDays(a, t, d, last, hour) ==
    IF d > last THEN <<>>
    ELSE LET date == Instant(d, hour) IN
         (IF Before(date, getFirstUseDate(a, t)) \/ Before(t, date) THEN <<>>
          ELSE <<DayRate(a, date)>>)
         \o dailyRatesWithIdleDays(a, t, d + 1, last, hour)

\* the day loop of a week, a month or a year: the dates from day d to day last at
\* one hour, without the dates before the first use or after now
RECURSIVE dailyRates(_, _, _, _, _)
dailyRates(a, t, d, last, hour) ==
    IF d > last THEN <<>>
    ELSE LET date == Instant(d, hour) IN
         (IF Before(date, getFirstUseDate(a, t)) \/ Before(t, date) THEN <<>>
          ELSE IF activeTaskIds(a, date) = {} THEN <<>>
          ELSE <<DayRate(a, date)>>)
         \o dailyRates(a, t, d + 1, last, hour)

\* a bucket of the week, month and year ranges: its rate is the mean of rates
Bucket(label, rates) == [label |-> label, rates |-> rates, daysCount |-> Len(rates)]

RECURSIVE WeeksFrom(_, _, _)
WeeksFrom(a, t, w) ==
    IF w < 0 THEN <<>>
    ELSE LET weekStart == t.day - (w * 7) - getDay(t)
             rates == dailyRates(a, t, weekStart, weekStart + 6, t.hour)
         IN (IF rates = <<>> THEN <<>> ELSE <<Bucket(w, rates)>>) \o WeeksFrom(a, t, w - 1)

\* the six months up to February 2026 and the year 2026, as day numbers
Months ==
    <<[first |-> 0 - 159, last |-> 0 - 130], [first |-> 0 - 129, last |-> 0 - 99],
      [first |-> 0 - 98, last |-> 0 - 69], [first |-> 0 - 68, last |-> 0 - 38],
      [first |-> 0 - 37, last |-> 0 - 7], [first |-> 0 - 6, last |-> 21]>>

\* the months of 2026
YearMonths ==
    <<[first |-> 0 - 37, last |-> 0 - 7], [first |-> 0 - 6, last |-> 21],
      [first |-> 22, last |-> 52], [first |-> 53, last |-> 82],
      [first |-> 83, last |-> 113], [first |-> 114, last |-> 143],
      [first |-> 144, last |-> 174], [first |-> 175, last |-> 205],
      [first |-> 206, last |-> 235], [first |-> 236, last |-> 266],
      [first |-> 267, last |-> 296], [first |-> 297, last |-> 327]>>

RECURSIVE YearFrom(_, _, _)
YearFrom(a, t, m) ==
    IF m > Len(YearMonths) THEN <<>>
    ELSE dailyRates(a, t, YearMonths[m].first, YearMonths[m].last, 0)
         \o YearFrom(a, t, m + 1)

RECURSIVE MonthsFrom(_, _, _)
MonthsFrom(a, t, k) ==
    IF k > Len(Months) THEN <<>>
    ELSE LET month == Months[k]
             rates == dailyRates(a, t, month.first, month.last, 0)
         IN (IF Before(Instant(month.last, 0), getFirstUseDate(a, t)) \/ rates = <<>>
             THEN <<>> ELSE <<Bucket(k, rates)>>)
            \o MonthsFrom(a, t, k + 1)

calculateRecurringConsistency(a, range, t) ==
    IF a.recurringTasks = <<>> THEN <<>>
    ELSE IF range = "daily"
    THEN LET firstUse == getFirstUseDate(a, t)
             daysSinceFirstUse ==
                 ((t.day * 24 + t.hour) - (firstUse.day * 24 + firstUse.hour)) \div 24
             daysToShow == IF daysSinceFirstUse + 1 < 7 THEN daysSinceFirstUse + 1 ELSE 7
         IN DailyFrom(a, t, daysToShow - 1)
    ELSE IF range = "weekly" THEN WeeksFrom(a, t, 3)
    ELSE IF range = "monthly" THEN MonthsFrom(a, t, 1)
    ELSE LET rates == YearFrom(a, t, 1)
         IN IF rates = <<>> THEN <<>> ELSE <<Bucket(2026, rates)>>

Ranges == {"daily", "weekly", "monthly", "yearly"}

\* the recurring tasks of the list: created now, daily or with a cycle from today
StatsTask(rid, type, activeDays, breakDays, t) ==
    [id |-> rid, difficulty |-> "quick", subtasks |-> <<>>, distributeCoins |-> FALSE,
     type |-> type, createdAt |-> <<t>>, activeDays |-> activeDays, breakDays |-> breakDays,
     cycleStartDate |-> IF type = "interval" THEN <<Instant(t.day, ResetHour)>> ELSE <<>>]

StatsLists(t) ==
    {<<StatsTask("r1", "daily", 0, 0, t)>>,
     <<StatsTask("r2", "interval", 1, 1, t)>>,
     <<StatsTask("r2", "interval", 1, 2, t)>>,
     <<StatsTask("r1", "daily", 0, 0, t), StatsTask("r2", "interval", 1, 1, t)>>}

InitStats ==
    /\ Idle
    /\ \E h \in {2, 12} : \E list \in StatsLists(Instant(0, h)) :
         probe = [fn |-> "calculateRecurringConsistency", t |-> Instant(0, h),
                  data |-> [DefaultAppData EXCEPT !.recurringTasks = list],
                  chart |-> <<>>]

\* the checkbox of a recurring row that renderTasks shows
StatsToggleRecurringTask ==
    /\ probe.fn = "calculateRecurringConsistency"
    /\ \E r \in Range(probe.data.recurringTasks) :
         /\ shouldShowIntervalTask(r, probe.t)
         /\ probe' = [probe EXCEPT !.data = toggleRecurringTask(@, r.id, probe.t),
                                   !.chart = <<>>]
    /\ IdleFrame

StatsClock ==
    /\ probe.fn = "calculateRecurringConsistency"
    /\ NextInstant(probe.t).day <= MaxStatsDay
    /\ probe' = [probe EXCEPT !.t = NextInstant(@), !.chart = <<>>]
    /\ IdleFrame

\* renderProgress: the chart of the four ranges
RenderProgress ==
    /\ probe.fn = "calculateRecurringConsistency"
    /\ probe.chart = <<>>
    /\ probe' = [probe EXCEPT !.chart =
            <<[range \in Ranges |-> calculateRecurringConsistency(probe.data, range, probe.t)]>>]
    /\ IdleFrame

NextStats == StatsToggleRecurringTask \/ StatsClock \/ RenderProgress

SpecStats == InitStats /\ [][NextStats]_vars


\* the recurring tasks active on calendar day d, and those of them with a recurring
\* entry of history on app-date d
ActiveOn(d) ==
    {r \in Range(probe.data.recurringTasks) : isTaskActiveOnDate(r, Instant(d, 12))}

DoneOn(d) ==
    {r \in ActiveOn(d) : \E h \in Range(probe.data.completedHistory) :
        /\ h.isRecurring /\ h.recurringId = r.id
        /\ h.completedAt # <<>> /\ AppDate(h.completedAt[1]) = d}

\* day d, taken at the hour the range takes its dates at, lies between the first use
\* and now
InRange(d, hour) ==
    /\ ~Before(Instant(d, hour), getFirstUseDate(probe.data, probe.t))
    /\ ~Before(probe.t, Instant(d, hour))

\* rates holds, in the order of the days, one value for each day of days that is in
\* range and has an active task, and the value is done / active of that day
RatesRight(rates, days, hour) ==
    /\ {rates[i].day : i \in DOMAIN rates} =
           {d \in days : InRange(d, hour) /\ ActiveOn(d) # {}}
    /\ \A i, j \in DOMAIN rates : i < j => rates[i].day < rates[j].day
    /\ \A i \in DOMAIN rates :
         /\ rates[i].count = Cardinality(DoneOn(rates[i].day))
         /\ rates[i].expected = Cardinality(ActiveOn(rates[i].day))

\* buckets holds one bucket, with the right rates, for each period that has a value
PeriodsRight(buckets, labels, days(_), hour) ==
    /\ \A i, j \in DOMAIN buckets : buckets[i].label = buckets[j].label => i = j
    /\ {buckets[i].label : i \in DOMAIN buckets} =
           {l \in labels : \E d \in days(l) : InRange(d, hour) /\ ActiveOn(d) # {}}
    /\ \A i \in DOMAIN buckets :
         /\ RatesRight(buckets[i].rates, days(buckets[i].label), hour)
         /\ buckets[i].daysCount = Len(buckets[i].rates)

WeekDays(w) ==
    LET weekStart == probe.t.day - (w * 7) - getDay(probe.t) IN weekStart..(weekStart + 6)

MonthDays(k) == Months[k].first..Months[k].last

YearDays(y) == YearMonths[1].first..YearMonths[12].last

\* C19: in every range of the chart a day on which no recurring task is active has
\* no daily bucket and no value in the mean of its week, month or year; a day with
\* an active task has the value (active tasks with a recurring entry of history on
\* that app-date) / (active tasks) * 100
IdleDaysLeftOut ==
    probe.fn = "calculateRecurringConsistency" /\ probe.chart # <<>> =>
        LET chart == probe.chart[1] IN
        /\ RatesRight(chart["daily"], (probe.t.day - 6)..probe.t.day, probe.t.hour)
        /\ PeriodsRight(chart["weekly"], 0..3, WeekDays, probe.t.hour)
        /\ PeriodsRight(chart["monthly"], 1..6, MonthDays, 0)
        /\ PeriodsRight(chart["yearly"], {2026}, YearDays, 0)

\* the chart is drawn over a range with a day without an active task and a day
\* with a completed one
ChartWithIdleDay ==
    /\ probe.fn = "calculateRecurringConsistency" /\ probe.chart # <<>>
    /\ \E d \in (probe.t.day - 6)..probe.t.day :
         InRange(d, probe.t.hour) /\ InRange(d, 0) /\ ActiveOn(d) = {}
    /\ \E i \in DOMAIN probe.chart[1]["daily"] : probe.chart[1]["daily"][i].count > 0
    /\ \E i \in DOMAIN probe.chart[1]["yearly"] : probe.chart[1]["yearly"][i].daysCount > 0

----------------------------------------------------------------------------
\* The sale predicate asked at the hours around 06:00 of the days of two weeks: the
\* week of the holiday and the week of day 0

MaxSaleAsked == 2

SaleHours == {0, 5, 6, 7, 23}
SaleDays == (Jan19 - 3)..(Jan19 + 2) \cup ((0 - 1)..3)

InitSale ==
    /\ Idle
    /\ probe = [fn |-> "isWeekendSale", asked |-> <<>>]

\* renderRewards or getShopItemPrice asks at some time, for some item on the shelf
AskSale ==
    /\ probe.fn = "isWeekendSale"
    /\ Len(probe.asked) < MaxSaleAsked
    /\ \E d \in SaleDays, h \in SaleHours, item \in PriceItems :
         probe' = [probe EXCEPT !.asked =
                      Append(@, [t |-> Instant(d, h), item |-> item.id,
                                 sale |-> isWeekendSale(Instant(d, h))])]
    /\ IdleFrame

NextSale == AskSale

SpecSale == InitSale /\ [][NextSale]_vars

\* hours since the Sunday 00:00 before t, and hours since 00:00 of day 0
WeekHour(t) == ((FirstDow + t.day) % 7) * 24 + t.hour
AbsHour(t) == t.day * 24 + t.hour

InHolidayWindow(t) ==
    \E hd \in holidays : hd * 24 + 6 <= AbsHour(t) /\ AbsHour(t) < (hd + 1) * 24 + 6

\* C20 as stated: the predicate is true exactly from Saturday 06:00 through Monday
\* 06:00, that hour included, and inside a holiday's window from 06:00 to 06:00 of
\* the next day, whatever the item
SaleThroughMondaySix ==
    \A i \in DOMAIN probe.asked :
        probe.asked[i].sale =
            (\/ WeekHour(probe.asked[i].t) >= 6 * 24 + 6
             \/ WeekHour(probe.asked[i].t) <= 1 * 24 + 6
             \/ InHolidayWindow(probe.asked[i].t))

\* C20: the predicate is true exactly from Saturday 06:00 up to, but not at, Monday
\* 06:00, and from 06:00 of a holiday up to, but not at, 06:00 of the next day,
\* whatever the item
SaleUntilMondaySix ==
    \A i \in DOMAIN probe.asked :
        probe.asked[i].sale =
            (\/ WeekHour(probe.asked[i].t) >= 6 * 24 + 6
             \/ WeekHour(probe.asked[i].t) < 1 * 24 + 6
             \/ InHolidayWindow(probe.asked[i].t))

\* asked at 06:00 of a Monday that follows no holiday and is none: no sale; asked at
\* 05:00 of the day after the holiday: sale
AskedAtWindowEnds ==
    /\ probe.fn = "isWeekendSale"
    /\ \E i \in DOMAIN probe.asked :
         /\ getDay(probe.asked[i].t) = 1 /\ probe.asked[i].t.hour = 6
         /\ probe.asked[i].t.day \notin holidays
         /\ ~probe.asked[i].sale
    /\ \E i \in DOMAIN probe.asked :
         /\ (probe.asked[i].t.day - 1) \in holidays /\ probe.asked[i].t.hour = 5
         /\ probe.asked[i].sale

----------------------------------------------------------------------------
\* Saves that fail: setDoc rejects, the catch block of saveData reports it. The
\* listener delivers the echo of a write before the next click, so a handler of this
\* part starts with an empty feed. The probe keeps the mutations whose save failed
\* and whether a save has succeeded since the last failure.

\* a catch block that would put back the snapshot of before the mutation
afterFailedSaveRolledBack(a, before) == before

\* the catch block of saveData: appData stays as the handler left it
afterFailedSave(a, before) == a

\* what a click of this part does to the snapshot: a new one-off task, or the
\* checkbox of an active one
Mutations(a, t) ==
    {[kind |-> "add", id |-> task.id, data |-> [a EXCEPT !.tasks = Unshift(@, task)]] :
        task \in {x \in TaskTemplates : x.id \notin Ids(a.tasks) \cup Ids(a.completedHistory)}}
    \cup {[kind |-> "complete", id |-> id, data |-> toggleTask(a, id, t)] : id \in Ids(a.tasks)}

SaveProbe == IF probe.fn = "saveData" THEN probe
             ELSE [fn |-> "saveData", failed |-> {}, ok |-> FALSE]

MutateAndSave ==
    /\ PageFree /\ feed = <<>>
    /\ \E m \in Mutations(appData, now) :
         \/ /\ appData' = m.data
            /\ saveData(appData')
            /\ probe' = [SaveProbe EXCEPT !.ok = TRUE]
         \/ /\ appData' = afterFailedSave(m.data, appData)
            /\ UNCHANGED <<cloud, feed>>
            /\ probe' = [SaveProbe EXCEPT !.failed = @ \cup {[kind |-> m.kind, id |-> m.id]},
                                          !.ok = FALSE]
    /\ UNCHANGED <<now, isFirstLoad, localStorage, currentRewardToClaim,
                   currentShopItemToClaim, claimModalOpen, rewardsGrid, spent>>

NextSave == OnSnapshot \/ MutateAndSave

SpecSave == Init /\ [][NextSave]_vars

EffectIn(a, m) ==
    IF m.kind = "add" THEN m.id \in Ids(a.tasks) \cup Ids(a.completedHistory)
    ELSE /\ m.id \in Ids(a.completedHistory)
         /\ m.id \notin Ids(a.tasks)

\* C21: a mutation whose save failed stays in memory, and once a later save has
\* succeeded the stored snapshot is the whole snapshot of that moment and holds the
\* effects of the mutations whose saves failed
FailedSaveRetried ==
    probe.fn = "saveData" =>
        /\ \A m \in probe.failed : EffectIn(appData, m)
        /\ probe.ok => /\ cloud # <<>>
                       /\ cloud[1] = appData
                       /\ \A m \in probe.failed : EffectIn(cloud[1], m)

\* the save of a completion failed, and a later save has stored it
StoredAfterFailure ==
    /\ probe.fn = "saveData" /\ probe.ok
    /\ \E m \in probe.failed : m.kind = "complete"
    /\ appData.tasks # <<>>

----------------------------------------------------------------------------
\* The Focus section. focusPinnedIds is the ordered list of pinned ids; a snapshot
\* without the field reads as one with the empty list.

Pins(a) == IF "focusPinnedIds" \in DOMAIN a THEN a.focusPinnedIds ELSE <<>>

\* recurringNotCompleted of renderTasks: the visible recurring tasks not done today
recurringNotCompleted(a, t) ==
    {r \in Range(a.recurringTasks) :
        /\ IF "type" \in DOMAIN r THEN shouldShowIntervalTask(r, t) ELSE TRUE
        /\ ~isRecurringCompletedToday(a, r.id, t)}

\* validPinnedIds: the pinned ids that are an active task or a due recurring task
validPinnedIds(a, t) ==
    LET valid == Ids(a.tasks) \cup {r.id : r \in recurringNotCompleted(a, t)}
        F[i \in 0..Len(Pins(a))] ==
            IF i = 0 THEN <<>>
            ELSE IF Pins(a)[i] \in valid THEN Append(F[i - 1], Pins(a)[i]) ELSE F[i - 1]
    IN F[Len(Pins(a))]

renderTasksChangesPins(a, t) == Len(validPinnedIds(a, t)) # Len(Pins(a))

\* renderTasks, its only write to the snapshot: the stale pinned ids go
renderTasks(a, t) ==
    IF renderTasksChangesPins(a, t)
    THEN Merge(a, [focusPinnedIds |-> validPinnedIds(a, t)])
    ELSE a

togglePin(a, taskId) ==
    LET pins == Pins(a) IN
    Merge(a, [focusPinnedIds |->
                 IF \E i \in DOMAIN pins : pins[i] = taskId
                 THEN LET first == CHOOSE i \in DOMAIN pins :
                                      pins[i] = taskId /\ \A j \in 1..(i - 1) : pins[j] # taskId
                      IN SubSeq(pins, 1, first - 1) \o SubSeq(pins, first + 1, Len(pins))
                 ELSE Append(pins, taskId)])

\* The recurring row whose pin button the user works with
PinRows == {"floss"}

\* the pin button of a row of the task list
TogglePin ==
    /\ PageFree /\ CanSave
    /\ \E id \in Ids(appData.tasks) \cup (PinRows \cap {r.id : r \in recurringNotCompleted(appData, now)}) :
         appData' = renderTasks(togglePin(appData, id), now)
    /\ saveData(appData')
    /\ UNCHANGED <<rewardsGrid, spent>>
    /\ UiFrame

\* setInterval with the Focus section: cleanupExpiredTasks saves when it removed a
\* task, then renderTasks saves when it dropped a pinned id
MinuteTick ==
    /\ feed = <<>>
    /\ NextTick(now).day <= MaxSweepDay
    /\ now' = NextTick(now)
    /\ LET swept == cleanupExpiredTasks(appData, now')
           sweepSaves == Expired(appData, now') # {}
           pinSaves == renderTasksChangesPins(swept, now')
       IN /\ appData' = renderTasks(swept, now')
          /\ cloud' = IF sweepSaves \/ pinSaves THEN <<appData'>> ELSE cloud
          /\ feed' = (IF sweepSaves THEN <<(<<swept>>)>> ELSE <<>>)
                        \o (IF pinSaves THEN <<(<<appData'>>)>> ELSE <<>>)
          /\ probe' = [fn |-> "setInterval", expiredTasks |-> Expired(appData, now')]
    /\ UNCHANGED <<isFirstLoad, localStorage, currentRewardToClaim, currentShopItemToClaim,
                   claimModalOpen, rewardsGrid, spent>>

NextMinute ==
    \/ MinuteTick
    \/ OnSnapshot
    \/ SaveNewTaskExpiring
    \/ TogglePin

SpecMinute == Init /\ [][NextMinute]_vars

\* C22: a tick of the minute timer only takes expired one-off tasks out of the
\* active list: stats, completedHistory, recurringCompletions, shopPurchases,
\* recurringTasks and focusPinnedIds are as before
TickOnlySweeps ==
    [][now' # now =>
         /\ appData'.tasks = FilterSeq(appData.tasks, Range(appData.tasks) \ Expired(appData, now'))
         /\ appData'.stats = appData.stats
         /\ appData'.completedHistory = appData.completedHistory
         /\ appData'.recurringCompletions = appData.recurringCompletions
         /\ appData'.shopPurchases = appData.shopPurchases
         /\ appData'.recurringTasks = appData.recurringTasks
         /\ Pins(appData') = Pins(appData)]_vars

----------------------------------------------------------------------------
\* What an ingestion leaves behind

\* map entries of another app-date than today
StaleCompletions(a, t) == {e \in a.recurringCompletions : e.v # getTodayDateString(t)}

\* the step is the change feed handler taking a stored document from the feed
IngestsDocument ==
    /\ feed # <<>> /\ Head(feed) # <<>>
    /\ Len(feed') <= Len(feed) /\ now' = now
    /\ isFirstLoad' = FALSE /\ probe' = probe /\ spent' = spent

\* C23: after the ingestion of an inbound snapshot, the first one or a later one,
\* the snapshot in memory holds no expired task, no stale entry of the completion
\* map and no orphaned one
IngestionRepairs ==
    [][IngestsDocument =>
         /\ Expired(appData', now) = {}
         /\ StaleCompletions(appData', now) = {}
         /\ Orphans(appData', now) = {}]_vars

----------------------------------------------------------------------------
\* runMigrationsAndCleanup applied to a loaded snapshot whose one-time repairs are
\* done: presets, a completion map with entries of today and of the day before, a
\* history with recurring entries of both days

CleanIds == {"brush_morning", "floss"}

\* the completion maps: each id absent, dated today or dated the day before
StartMaps(t) ==
    {m \in SUBSET {[k |-> id, v |-> d] : id \in CleanIds,
                                         d \in {getTodayDateString(t) - 1, getTodayDateString(t)}} :
        \A e1, e2 \in m : e1.k = e2.k => e1 = e2}

StartEntries(t) ==
    <<RecurringEntry("recurring_brush_morning_1", "brush_morning", "quick",
                     Instant(getTodayDateString(t) - 1, 12), Num(5)),
      RecurringEntry("recurring_floss_1", "floss", "quick",
                     Instant(getTodayDateString(t) - 1, 12), Num(5)),
      RecurringEntry("recurring_brush_morning_2", "brush_morning", "quick",
                     Instant(getTodayDateString(t), 12), Num(5)),
      RecurringEntry("recurring_floss_2", "floss", "quick",
                     Instant(getTodayDateString(t), 12), Num(5))>>

RepairedStats ==
    [NoStats EXCEPT !.economy_recalc_2026_01 = TRUE,
                    !.weekend_sale_refund_2026_01_18 = TRUE,
                    !.jan20_missing_tasks_fix_v2 = TRUE]

InitClean ==
    /\ now \in {Instant(0, 2), Instant(0, 12)}
    /\ \E m \in StartMaps(now), keep \in SUBSET Range(StartEntries(now)) :
         appData = [addPresets(DefaultAppData) EXCEPT
                       !.stats = RepairedStats,
                       !.recurringCompletions = m,
                       !.completedHistory = FilterSeq(StartEntries(now), keep)]
    /\ cloud = <<appData>>
    /\ feed = <<>>
    /\ isFirstLoad = TRUE
    /\ localStorage = {FIX_ID}
    /\ currentRewardToClaim = <<>>
    /\ currentShopItemToClaim = <<>>
    /\ claimModalOpen = FALSE
    /\ rewardsGrid = {}
    /\ spent = 0
    /\ probe = NoProbe

\* the first load runs runMigrationsAndCleanup on the snapshot; the probe keeps
\* the snapshot it started from
RunCleanup ==
    /\ isFirstLoad
    /\ appData' = runMigrationsAndCleanup(appData, now)
    /\ isFirstLoad' = FALSE
    /\ cloud' = IF appData' # appData THEN <<appData'>> ELSE cloud
    /\ probe' = [fn |-> "runMigrationsAndCleanup", start |-> appData]
    /\ UNCHANGED <<feed, now, localStorage, currentRewardToClaim, currentShopItemToClaim,
                   claimModalOpen, rewardsGrid, spent>>

NextClean == RunCleanup

SpecClean == InitClean /\ [][NextClean]_vars

\* C24: when runMigrationsAndCleanup has finished, a recurring task id is in the
\* completion map exactly when history holds a recurring entry of it for today
MapMatchesHistory ==
    probe.fn = "runMigrationsAndCleanup" =>
        \A id \in CleanIds :
            Has(appData.recurringCompletions, id) <=> TodaysEntries(appData, id, now) # {}

----------------------------------------------------------------------------
\* C25: the balance is never negative, whatever tasks are completed and
\* un-completed, subtasks toggled, rewards claimed and shop items bought
BalanceNeverNegative ==
    ~appData.stats.currentBalance.nan => appData.stats.currentBalance.v >= 0

----------------------------------------------------------------------------
\* C26: the amount a shop purchase debits is the price of the item computed from
\* the snapshot and the clock at the moment of the confirmation
DebitIsPriceAtConfirmation ==
    [][(currentShopItemToClaim # <<>> /\ spent' # spent) =>
          LET claim == currentShopItemToClaim[1] IN
          /\ spent' - spent = getShopItemPrice(appData, claim.item, now, TRUE)
          /\ appData'.stats.currentBalance
               = JsSub(appData.stats.currentBalance,
                       Num(getShopItemPrice(appData, claim.item, now, TRUE)))]_vars

----------------------------------------------------------------------------
\* Clicks on the loaded page that do not wait for the echo of the previous write:
\* up to MaxPending echoes are in the feed while the user goes on

MaxPending == 2

EchoRows == {"floss"}

EchoMutations(a, t) ==
    Mutations(a, t)
    \cup {[kind |-> "recurring", id |-> id, data |-> toggleRecurringTask(a, id, t)] :
            id \in EchoRows \cap Ids(a.recurringTasks)}

ClickBeforeEcho ==
    /\ PageFree /\ ~isFirstLoad /\ Len(feed) < MaxPending
    /\ \E m \in EchoMutations(appData, now) : appData' = m.data
    /\ saveData(appData')
    /\ UNCHANGED <<rewardsGrid, spent>>
    /\ UiFrame

NextEcho == OnSnapshot \/ ClickBeforeEcho

SpecEcho == Init /\ [][NextEcho]_vars

\* C27: the snapshot in memory is the last one this device wrote; when the handler
\* then takes an echo from the feed, the stats, the history and the completion map
\* in memory stay as the last mutation left them
EchoKeepsLaterMutation ==
    [][(IngestsDocument /\ ~isFirstLoad /\ cloud = <<appData>>) =>
          /\ appData'.stats = appData.stats
          /\ appData'.completedHistory = appData.completedHistory
          /\ appData'.recurringCompletions = appData.recurringCompletions]_vars

----------------------------------------------------------------------------
\* the number of history entries of a difficulty
EntriesOf(a, d) == Cardinality({i \in DOMAIN a.completedHistory : a.completedHistory[i].difficulty = d})

\* C28: on the loaded page every step changes each per-difficulty counter by as
\* much as it changes the number of history entries of that difficulty, so the two
\* stay equal from an empty snapshot on, and no counter is negative
CountersFollowHistory ==
    [][~isFirstLoad =>
          \A d \in DiffNames :
              /\ appData'.stats.tasksCompleted[d] - appData.stats.tasksCompleted[d]
                   = EntriesOf(appData', d) - EntriesOf(appData, d)
              /\ appData'.stats.tasksCompleted[d] >= 0]_vars

----------------------------------------------------------------------------
\* recurring tasks whose map entry is of the app-date before today
DoneYesterday(a, t) ==
    {r \in Range(a.recurringTasks) :
        /\ Has(a.recurringCompletions, r.id)
        /\ Get(a.recurringCompletions, r.id) = getTodayDateString(t) - 1}

\* C29: a recurring task done on app-date D is due on D + 1 with its map entry
\* still in place, and its checkbox then completes it: the coins are credited once,
\* the counter goes up by one, the map entry becomes D + 1 and one history entry of
\* D + 1 is put in front of the history, which keeps all it had
DueAgainNextDay ==
    \A r \in DoneYesterday(appData, now) :
        LET b == toggleRecurringTask(appData, r.id, now)
            coins == Num(DIFFICULTIES[r.difficulty])
        IN /\ ~isRecurringCompletedToday(appData, r.id, now)
           /\ b.stats.currentBalance = JsAdd(appData.stats.currentBalance, coins)
           /\ b.stats.totalCoinsEarned = JsAdd(appData.stats.totalCoinsEarned, coins)
           /\ b.stats.tasksCompleted[r.difficulty] = appData.stats.tasksCompleted[r.difficulty] + 1
           /\ Get(b.recurringCompletions, r.id) = getTodayDateString(now)
           /\ Len(b.completedHistory) = Len(appData.completedHistory) + 1
           /\ Tail(b.completedHistory) = appData.completedHistory
           /\ Head(b.completedHistory).recurringId = r.id
           /\ EntryDate(Head(b.completedHistory)) = getTodayDateString(now)

\* r1 was completed on the app-date before today and again today, and history has
\* both entries
CompletedOnBothDays ==
    /\ Has(appData.recurringCompletions, "r1")
    /\ Get(appData.recurringCompletions, "r1") = getTodayDateString(now)
    /\ \E h1, h2 \in Range(appData.completedHistory) :
         /\ h1.recurringId = "r1" /\ h2.recurringId = "r1"
         /\ EntryDate(h1) = getTodayDateString(now) - 1
         /\ EntryDate(h2) = getTodayDateString(now)

----------------------------------------------------------------------------
\* Presets over loads, empty-store notifications and inbound snapshots. The desktop
\* build keeps the snapshot in a file; the model holds it in the store variable.

DeleteRows == {"floss"}

deleteRecurringTask(a, id) ==
    [a EXCEPT !.recurringTasks = FilterSeq(@, {r \in Range(@) : r.id # id}),
              !.recurringCompletions = Delete(@, id)]

DeleteRecurringTask ==
    /\ PageFree /\ CanSave
    /\ \E id \in DeleteRows \cap Ids(appData.recurringTasks) :
         appData' = deleteRecurringTask(appData, id)
    /\ saveData(appData')
    /\ UNCHANGED <<rewardsGrid, spent>>
    /\ UiFrame

\* the stored document is deleted: the listener is told that it does not exist
StoreEmptied ==
    /\ CanSave /\ cloud # <<>>
    /\ cloud' = <<>>
    /\ feed' = Append(feed, <<>>)
    /\ UNCHANGED <<appData, now, isFirstLoad, localStorage, currentRewardToClaim,
                   currentShopItemToClaim, claimModalOpen, rewardsGrid, spent, probe>>

\* the desktop build starts: the module is evaluated, init() has not run yet
DesktopStart ==
    /\ appData' = DefaultAppData
    /\ feed' = <<>>
    /\ isFirstLoad' = TRUE
    /\ probe' = [fn |-> "desktopStart"]
    /\ currentRewardToClaim' = <<>>
    /\ currentShopItemToClaim' = <<>>
    /\ claimModalOpen' = FALSE
    /\ rewardsGrid' = {}
    /\ UNCHANGED <<now, cloud, localStorage, spent>>

\* init() of the desktop build on the data loadData returns
desktopInit(a, savedData, t, tz) ==
    LET a0 == IF savedData = <<>> THEN a ELSE savedData[1]
        a1 == MigrateCompletedTasks(a0)
        a2 == [a1 EXCEPT !.recurringCompletions =
                  {e \in @ : e.v = getTodayDateStringDesktop(t, tz)}]
    IN IF a2.presetsInitialized THEN a2 ELSE addPresets(a2)

DesktopInit ==
    /\ probe.fn = "desktopStart"
    /\ \E tz \in Zones : appData' = desktopInit(appData, cloud, now, tz)
    /\ cloud' = IF cloud = <<>> \/ appData' # cloud[1] THEN <<appData'>> ELSE cloud
    /\ isFirstLoad' = FALSE
    /\ probe' = [fn |-> "desktopInit"]
    /\ rewardsGrid' = renderRewards(appData', now)
    /\ UNCHANGED <<now, feed, localStorage, spent, currentRewardToClaim,
                   currentShopItemToClaim, claimModalOpen>>

NextPreset ==
    \/ OnSnapshot
    \/ Reload
    \/ StoreEmptied
    \/ DeleteRecurringTask
    \/ DesktopStart
    \/ DesktopInit

SpecPreset == Init /\ [][NextPreset]_vars

PresetIds == Range(PRESET_RECURRING_TASKS)

OncePerId(list) ==
    \A i, j \in DOMAIN list : (list[i].id = list[j].id /\ list[i].id \in PresetIds) => i = j

\* C30: every preset id occurs at most once in recurringTasks, in memory and in
\* the store, and while presetsInitialized is true a preset that is not in the
\* list enters it only with an inbound snapshot that holds it
PresetsAddedOnce ==
    [][/\ OncePerId(appData.recurringTasks) /\ OncePerId(appData'.recurringTasks)
       /\ cloud' # <<>> => OncePerId(cloud'[1].recurringTasks)
       /\ \A id \in PresetIds :
            (/\ appData.presetsInitialized
             /\ id \notin Ids(appData.recurringTasks)
             /\ id \in Ids(appData'.recurringTasks))
            => /\ feed # <<>> /\ Head(feed) # <<>>
               /\ id \in Ids(Head(feed)[1].recurringTasks)]_vars

\* floss was deleted, the store was emptied afterwards and the notification has
\* been handled
EmptyStoreAfterDelete ==
    /\ appData.presetsInitialized /\ ~isFirstLoad
    /\ "floss" \notin Ids(appData.recurringTasks)
    /\ "brush_night" \in Ids(appData.recurringTasks)
    /\ cloud = <<>> /\ feed = <<>>

====
